---- MODULE Spec2Model ----
(***************************************************************************)
(* A model of the SEC EDGAR retrieval pipeline (package sec_edgar):        *)
(*   - http_client.get with its module-level rate limiter and its          *)
(*     retry/backoff loop, called by one thread or by several;             *)
(*   - normalizer.normalize (alias annotation, deduplication, priority     *)
(*     filter, sort) as a function of a list of fact rows;                 *)
(*   - submissions.fetch with its overflow pages and _parse_filings;       *)
(*   - cik_resolver.resolve with the ticker-map cache file;                *)
(*   - main, the batch run over the tickers of the command line.           *)
(*                                                                         *)
(* Time.  The monotonic clock is a natural number of ticks,                *)
(* TicksPerSecond ticks to the second.  Statements of the program take no  *)
(* time: the clock advances only while every running thread is blocked in  *)
(* time.sleep, blocked in requests.get waiting for the response, or        *)
(* between two calls of get.  time.sleep(d) returns no earlier than d      *)
(* after it was called, and may return later.                              *)
(***************************************************************************)
EXTENDS Integers, Sequences, FiniteSets, TLC

VARIABLES
    clock,               \* time.monotonic()
    last_request_time,   \* http_client._last_request_time
    callers,             \* the threads that call get
    upstream,            \* the status codes the upstream answers with
    callsLeft,           \* per thread: calls of get it may still start
    pc,                  \* per thread: position inside get / _rate_limit
    now,                 \* per thread: local `now` of _rate_limit (0 outside it)
    wake,                \* per thread: earliest return time of its time.sleep (0: none)
    attempt,             \* per thread: loop variable of get
    resp,                \* per thread: status code of the last response
    nsent,               \* per thread: requests sent by the current call
    backoffs,            \* per thread: backoff sleeps of the current call
    throttled,           \* per thread: 403/429 responses of the current call
    passed,              \* per thread: other non-200 responses that did not raise
    outcome,             \* per thread: how the last call of get ended
    numSent,             \* requests sent by the process
    firstSent,           \* clock at the first request of the process
    prevSent,            \* clock at the request before the latest one
    lastSent,            \* clock at the latest request of the process
    slackLeft,           \* ticks of latency, oversleep and idle time still to pass
    facts_rows,          \* the caller's list of fact rows, passed to normalize
    original_rows,       \* that list as it was before normalize was called
    priority_only,       \* the priority_only argument of normalize
    rows,                \* the list returned by the latest call of normalize
    prev_rows,           \* the list returned by the call before, passed to the latest
    ncalls,              \* calls of normalize so far
    data,                \* the submissions document the primary request answers with
    overflow_docs,       \* the documents the overflow requests were answered with
    fetch_pc,            \* position inside submissions.fetch
    filings,             \* local `filings` of submissions.fetch
    ref_index,           \* overflow references already iterated by the loop of fetch
    requests_made,       \* what submissions.fetch has requested so far, in order
    wall_clock,          \* time.time(), in hours
    cache,               \* the cache file company_tickers.json: <<>> or <<[mtime, content]>>
    cache_before,        \* the cache file as the latest call of resolve found it
    sec_table,           \* the table the upstream serves at TICKER_MAP_URL
    tickers,             \* the tickers argument of resolve
    resolve_pc,          \* position inside cik_resolver.resolve
    ticker_map,          \* local `ticker_map` of resolve
    resolved,            \* how the latest call of resolve ended
    load_log,            \* per call of resolve: when it was made, the requests for
                         \* TICKER_MAP_URL it made, whether the table was delivered
    resolve_calls,       \* calls of resolve so far
    args,                \* main: the parsed command line, without the tickers
    main_pc,             \* position inside main
    cik_map,             \* main: the mapping resolve returned, in insertion order
    entity,              \* main: index in cik_map of the entity being processed
    run_pc,              \* position inside _run_ticker
    result,              \* _run_ticker: local `result` (filings and facts)
    written,             \* the outputs written so far, in order
    reported,            \* the tickers whose processing error main has printed
    stage_log,           \* the fetches and writes of _run_ticker so far, in order
    exit_status,         \* exit status of the process, <<>> while main runs
    facts_data,          \* the company-facts document passed to extract_facts_flat
    flat,                \* the list extract_facts_flat returned
    extract_pc,          \* how far the facts pipeline of _run_ticker has come
    facts,               \* what normalize(flat) returned
    environ,             \* os.environ.get("SEC_EDGAR_USER_AGENT") when config is imported
    user_agent,          \* the user_agent argument the callers of get pass
    ua,                  \* per thread: local `ua` of get
    ua_sent,             \* the User-Agent headers of the requests sent so far
    cache_file,          \* the cache file concurrent resolvers share: <<>> or
                         \* <<[mtime, content, chunks]>>, chunks the parts written
    res_pc,              \* per resolver: position inside resolve / _load_ticker_map
    res_raw,             \* per resolver: local `raw` of _load_ticker_map
    res_chunk,           \* per resolver: parts of raw that json.dump has written
    res_outcome,         \* per resolver: how its call of resolve ended
    _jobs,               \* munger_api._jobs: the job store, a job's id is its index
    job_pc,              \* per job: position of its worker thread in _run_job
    job_result,          \* per job: the report or the exception in hand, if any
    last_reply           \* status of the latest reply of do_POST

httpVars == <<clock, last_request_time, callers, upstream, callsLeft, pc, now, wake, attempt, resp, nsent, backoffs, throttled, passed, outcome,
              numSent, firstSent, prevSent, lastSent, slackLeft>>

normVars == <<facts_rows, original_rows, priority_only, rows, prev_rows, ncalls>>

subVars == <<data, overflow_docs, fetch_pc, filings, ref_index, requests_made>>

resVars == <<wall_clock, cache, cache_before, sec_table, tickers, resolve_pc, ticker_map,
             resolved, load_log, resolve_calls>>

mainVars == <<args, main_pc, cik_map, entity, run_pc, result, written, reported, stage_log,
              exit_status>>

extVars == <<facts_data, flat, extract_pc, facts>>

uaVars == <<environ, user_agent, ua, ua_sent>>

raceVars == <<cache_file, res_pc, res_raw, res_chunk, res_outcome>>

jobVars == <<_jobs, job_pc, job_result, last_reply>>

tailVars == <<raceVars, jobVars>>

restVars == <<extVars, uaVars, tailVars>>

appVars == <<subVars, resVars, mainVars, restVars>>

vars == <<httpVars, normVars, appVars>>

(***************************************************************************)
(* Bounds of the model.                                                    *)
(***************************************************************************)
NumThreads == 2          \* threads of the concurrent specification
MaxCalls == 2            \* calls of get by the single sequential caller
MaxConcurrentCalls == 1  \* calls of get by each concurrent caller
MaxStartClock == 2       \* the clock reads 0..MaxStartClock at the start
MaxSlack == 2            \* ticks of latency, oversleep and idle time, one caller
MaxConcurrentSlack == 1  \* the same, concurrent callers
MaxRows == 3             \* length of the list passed to normalize

Threads == 1..NumThreads
NoTime == 0 - 1

(***************************************************************************)
(* config.py                                                               *)
(***************************************************************************)
MAX_REQUESTS_PER_SECOND == 8
MAX_RETRIES == 3
BACKOFF_BASE == 2         \* seconds

TicksPerSecond == 2 * MAX_REQUESTS_PER_SECOND
\* REQUEST_DELAY = 1.0 / MAX_REQUESTS_PER_SECOND seconds, in ticks.
REQUEST_DELAY == TicksPerSecond \div MAX_REQUESTS_PER_SECOND

\* A number of seconds in ticks.
Seconds(n) == n * TicksPerSecond

\* Status codes the upstream may answer with: to one caller, to concurrent callers.
Statuses == {200, 204, 304, 403, 404, 429}
ConcurrentStatuses == {200, 404, 429}

(***************************************************************************)
(* http_client.py: pure parts                                              *)
(***************************************************************************)
\* _rate_limit, line 21: the limiter sleeps iff this holds.
NeedsSleep(e) == e < REQUEST_DELAY

\* A limiter that sleeps one tick too little.
SleepTimeShort(e) == REQUEST_DELAY - e - 1

\* _rate_limit, line 22: the argument of time.sleep.
SleepTime(e) == REQUEST_DELAY - e

\* A retry test that is off by one: the last attempt backs off too.
ShouldRetryLastToo(status, att) == status \in {403, 429} /\ att <= MAX_RETRIES

\* get, line 46: the response is retried after a backoff.
ShouldRetry(status, att) == status \in {403, 429} /\ att < MAX_RETRIES

\* A backoff that does not grow.
BackoffWaitFlat(att) == Seconds(BACKOFF_BASE)

\* get, line 47: the backoff before retry number att + 1.
BackoffWait(att) == Seconds(BACKOFF_BASE * (2 ^ att))

\* requests.Response.raise_for_status raises HTTPError for 4xx and 5xx.
RaisesForStatus(status) == status >= 400 /\ status < 600

Urgent == {"rl_now", "rl_check", "rl_stamp", "send"}
Sleeping == {"rl_sleep", "backoff"}

(***************************************************************************)
(* Initial states.                                                         *)
(***************************************************************************)
InitHttp(cs, codes, budget, ticks, starts) ==
    /\ clock \in starts
    /\ last_request_time = 0
    /\ callers = cs
    /\ upstream = codes
    /\ callsLeft = [t \in Threads |-> IF t \in cs THEN budget ELSE 0]
    /\ pc = [t \in Threads |-> "idle"]
    /\ now = [t \in Threads |-> 0]
    /\ wake = [t \in Threads |-> 0]
    /\ attempt = [t \in Threads |-> 0]
    /\ resp = [t \in Threads |-> 0]
    /\ nsent = [t \in Threads |-> 0]
    /\ backoffs = [t \in Threads |-> <<>>]
    /\ throttled = [t \in Threads |-> 0]
    /\ passed = [t \in Threads |-> 0]
    /\ outcome = [t \in Threads |-> "none"]
    /\ numSent = 0
    /\ firstSent = NoTime
    /\ prevSent = NoTime
    /\ lastSent = NoTime
    /\ slackLeft = ticks

\* One thread calls get, call after call.
\* normalize is not called.
NormalizeIdle ==
    /\ facts_rows = <<>>
    /\ original_rows = <<>>
    /\ priority_only = FALSE
    /\ rows = <<>>
    /\ prev_rows = <<>>
    /\ ncalls = 0

\* submissions.fetch is not called.
SubmissionsIdle ==
    /\ data = [recent |-> <<>>, files |-> <<>>]
    /\ overflow_docs = <<>>
    /\ fetch_pc = "idle"
    /\ filings = <<>>
    /\ ref_index = 0
    /\ requests_made = <<>>

NoOutcome == [kind |-> "none", results |-> <<>>, key |-> <<>>]

\* cik_resolver.resolve is not called.
ResolveIdle ==
    /\ wall_clock = 0
    /\ cache = <<>>
    /\ cache_before = <<>>
    /\ sec_table = <<>>
    /\ tickers = <<>>
    /\ resolve_pc = "idle"
    /\ ticker_map = <<>>
    /\ resolved = NoOutcome
    /\ load_log = <<>>
    /\ resolve_calls = 0

NoResult == [filings |-> <<>>, facts |-> <<>>]

\* main is not called.
MainIdle ==
    /\ args = [facts_only |-> FALSE, filings_only |-> FALSE, format |-> "json"]
    /\ main_pc = "idle"
    /\ cik_map = <<>>
    /\ entity = 0
    /\ run_pc = "idle"
    /\ result = NoResult
    /\ written = <<>>
    /\ reported = <<>>
    /\ stage_log = <<>>
    /\ exit_status = <<>>

\* extract_facts_flat is not called.
ExtractIdle ==
    /\ facts_data = [has_facts |-> FALSE, facts |-> <<>>]
    /\ flat = <<>>
    /\ extract_pc = "idle"
    /\ facts = <<>>

\* The environment variable is not set and get is called without user_agent.
UserAgentIdle ==
    /\ environ = <<>>
    /\ user_agent = <<>>
    /\ ua = [t \in 1..NumThreads |-> <<>>]
    /\ ua_sent = {}

\* No resolvers run concurrently.
RaceIdle ==
    /\ cache_file = <<>>
    /\ res_pc = <<>>
    /\ res_raw = <<>>
    /\ res_chunk = <<>>
    /\ res_outcome = <<>>

\* The job server has not been started.
JobIdle ==
    /\ _jobs = <<>>
    /\ job_pc = <<>>
    /\ job_result = <<>>
    /\ last_reply = "none"

TailIdle == RaceIdle /\ JobIdle

RestIdle == ExtractIdle /\ UserAgentIdle /\ TailIdle

AppIdle == SubmissionsIdle /\ ResolveIdle /\ MainIdle /\ RestIdle

InitGet ==
    /\ InitHttp({1}, Statuses, MaxCalls, MaxSlack, 0..MaxStartClock)
    /\ NormalizeIdle
    /\ AppIdle

\* Several threads (jobs started by MungerHandler.do_POST) call get.
InitGetConcurrent ==
    /\ InitHttp(Threads, ConcurrentStatuses, MaxConcurrentCalls, MaxConcurrentSlack,
                0..MaxStartClock)
    /\ NormalizeIdle
    /\ AppIdle

\* config.USER_AGENT: os.environ.get("SEC_EDGAR_USER_AGENT", <default>); an
\* optional value is <<>> (None, not set) or <<v>>.
USER_AGENT ==
    IF environ = <<>> THEN "SecEdgarCLI/1.0 (contact@example.com)" ELSE environ[1]

\* x or y, for an optional str x: None and "" are false
PyOr(x, y) == IF x = <<>> \/ x = <<"">> THEN y ELSE x[1]

\* What the environment variable, or the user_agent argument, can be: not
\* there, the empty string, a contact string.
EnvironValues == {<<>>, <<"">>, <<"ExampleCorp admin@corp.example">>}

UserAgentArgs == {<<>>, <<"">>, <<"MyApp/2.0 (me@example.org)">>}

\* One thread calls get; the environment and the argument are any of the above.
InitGetUserAgent ==
    /\ InitHttp({1}, ConcurrentStatuses, MaxConcurrentCalls, MaxConcurrentSlack, {0})
    /\ NormalizeIdle
    /\ SubmissionsIdle
    /\ ResolveIdle
    /\ MainIdle
    /\ ExtractIdle
    /\ TailIdle
    /\ environ \in EnvironValues
    /\ user_agent \in UserAgentArgs
    /\ ua = [t \in 1..NumThreads |-> <<>>]
    /\ ua_sent = {}

(***************************************************************************)
(* http_client.get, one action per step of a thread.                       *)
(***************************************************************************)
\* get is entered: lines 33-39, the loop starts with attempt = 0.
CallGet(t) ==
    /\ t \in callers
    /\ pc[t] = "idle"
    /\ callsLeft[t] > 0
    /\ callsLeft' = [callsLeft EXCEPT ![t] = @ - 1]
    /\ attempt' = [attempt EXCEPT ![t] = 0]
    /\ resp' = [resp EXCEPT ![t] = 0]
    /\ nsent' = [nsent EXCEPT ![t] = 0]
    /\ backoffs' = [backoffs EXCEPT ![t] = <<>>]
    /\ throttled' = [throttled EXCEPT ![t] = 0]
    /\ passed' = [passed EXCEPT ![t] = 0]
    /\ outcome' = [outcome EXCEPT ![t] = "none"]
    /\ pc' = [pc EXCEPT ![t] = "rl_now"]
    /\ ua' = [ua EXCEPT ![t] = <<PyOr(user_agent, USER_AGENT)>>]
    /\ UNCHANGED <<clock, last_request_time, callers, upstream, now, wake,
                   numSent, firstSent, prevSent, lastSent, slackLeft,
                   normVars, subVars, resVars, mainVars, extVars, tailVars, environ,
                   user_agent, ua_sent>>

\* _rate_limit, line 19: now = time.monotonic()
RateLimitNow(t) ==
    /\ pc[t] = "rl_now"
    /\ now' = [now EXCEPT ![t] = clock]
    /\ pc' = [pc EXCEPT ![t] = "rl_check"]
    /\ UNCHANGED <<clock, last_request_time, callers, upstream, callsLeft,
                   wake, attempt, resp, nsent, backoffs, throttled, passed,
                   outcome, numSent, firstSent, prevSent, lastSent,
                   slackLeft, normVars, appVars>>

\* _rate_limit, lines 20-22: elapsed is computed from the shared timestamp and
\* the thread goes to sleep when it is too small.
RateLimitCheck(t) ==
    /\ pc[t] = "rl_check"
    /\ LET e == now[t] - last_request_time IN
        IF NeedsSleep(e)
        THEN /\ wake' = [wake EXCEPT ![t] = clock + SleepTime(e)]
             /\ pc' = [pc EXCEPT ![t] = "rl_sleep"]
        ELSE /\ wake' = wake
             /\ pc' = [pc EXCEPT ![t] = "rl_stamp"]
    /\ UNCHANGED <<clock, last_request_time, callers, upstream, callsLeft,
                   now, attempt, resp, nsent, backoffs, throttled, passed,
                   outcome, numSent, firstSent, prevSent, lastSent,
                   slackLeft, normVars, appVars>>

\* _rate_limit, line 22: time.sleep returns.
RateLimitWake(t) ==
    /\ pc[t] = "rl_sleep"
    /\ clock >= wake[t]
    /\ wake' = [wake EXCEPT ![t] = 0]
    /\ pc' = [pc EXCEPT ![t] = "rl_stamp"]
    /\ UNCHANGED <<clock, last_request_time, callers, upstream, callsLeft,
                   now, attempt, resp, nsent, backoffs, throttled, passed,
                   outcome, numSent, firstSent, prevSent, lastSent,
                   slackLeft, normVars, appVars>>

\* _rate_limit, line 23: _last_request_time = time.monotonic()
RateLimitStamp(t) ==
    /\ pc[t] = "rl_stamp"
    /\ last_request_time' = clock
    /\ now' = [now EXCEPT ![t] = 0]
    /\ pc' = [pc EXCEPT ![t] = "send"]
    /\ UNCHANGED <<clock, callers, upstream, callsLeft, wake, attempt, resp,
                   nsent, backoffs, throttled, passed, outcome, numSent,
                   firstSent, prevSent, lastSent, slackLeft, normVars, appVars>>

\* get, line 41: requests.get is called, the request goes out.
SendRequest(t) ==
    /\ pc[t] = "send"
    /\ nsent' = [nsent EXCEPT ![t] = @ + 1]
    /\ numSent' = numSent + 1
    /\ firstSent' = IF numSent = 0 THEN clock ELSE firstSent
    /\ prevSent' = lastSent
    /\ lastSent' = clock
    /\ pc' = [pc EXCEPT ![t] = "wait"]
    /\ ua_sent' = ua_sent \cup {ua[t][1]}
    /\ UNCHANGED <<clock, last_request_time, callers, upstream, callsLeft,
                   now, wake, attempt, resp, backoffs, throttled, passed,
                   outcome, slackLeft, normVars, subVars, resVars, mainVars, extVars,
                   tailVars, environ, user_agent, ua>>

\* get, lines 43-44: the response is a 200 and is returned.
Return200(t) ==
    /\ pc[t] = "wait"
    /\ 200 \in upstream
    /\ resp' = [resp EXCEPT ![t] = 200]
    /\ outcome' = [outcome EXCEPT ![t] = "returned"]
    /\ pc' = [pc EXCEPT ![t] = "idle"]
    /\ UNCHANGED <<clock, last_request_time, callers, upstream, callsLeft,
                   now, wake, attempt, nsent, backoffs, throttled, passed,
                   numSent, firstSent, prevSent, lastSent, slackLeft,
                   normVars, appVars>>

\* get, lines 46-48: a 403 or 429 before the last attempt starts a backoff sleep.
Backoff(t, s) ==
    /\ pc[t] = "wait"
    /\ s \in upstream
    /\ s # 200
    /\ ShouldRetry(s, attempt[t])
    /\ resp' = [resp EXCEPT ![t] = s]
    /\ throttled' = [throttled EXCEPT ![t] = @ + 1]
    /\ backoffs' = [backoffs EXCEPT ![t] = Append(@, BackoffWait(attempt[t]))]
    /\ wake' = [wake EXCEPT ![t] = clock + BackoffWait(attempt[t])]
    /\ pc' = [pc EXCEPT ![t] = "backoff"]
    /\ UNCHANGED <<clock, last_request_time, callers, upstream, callsLeft,
                   now, attempt, nsent, passed, outcome, numSent, firstSent,
                   prevSent, lastSent, slackLeft, normVars, appVars>>

\* get, lines 48-49 and 39: the backoff sleep returns and `continue` starts the
\* next attempt; were the loop exhausted, lines 54-55 would end the call.
BackoffWake(t) ==
    /\ pc[t] = "backoff"
    /\ clock >= wake[t]
    /\ wake' = [wake EXCEPT ![t] = 0]
    /\ attempt' = [attempt EXCEPT ![t] = @ + 1]
    /\ IF attempt[t] + 1 <= MAX_RETRIES
       THEN /\ pc' = [pc EXCEPT ![t] = "rl_now"]
            /\ outcome' = outcome
       ELSE /\ pc' = [pc EXCEPT ![t] = "idle"]
            /\ outcome' = [outcome EXCEPT ![t] =
                  IF RaisesForStatus(resp[t]) THEN "raised" ELSE "returned"]
    /\ UNCHANGED <<clock, last_request_time, callers, upstream, callsLeft,
                   now, resp, nsent, backoffs, throttled, passed, numSent,
                   firstSent, prevSent, lastSent, slackLeft, normVars, appVars>>

\* get, line 51 and, once the loop is exhausted, lines 54-55: any other
\* response goes to raise_for_status.  When that raises, get raises.  When it
\* does not, the loop goes on with the next attempt, and after the last
\* attempt line 54 calls raise_for_status again and line 55 returns resp.
RaiseForStatus(t, s) ==
    /\ pc[t] = "wait"
    /\ s \in upstream
    /\ s # 200
    /\ ~ShouldRetry(s, attempt[t])
    /\ resp' = [resp EXCEPT ![t] = s]
    /\ throttled' = [throttled EXCEPT ![t] = IF s \in {403, 429} THEN @ + 1 ELSE @]
    /\ IF RaisesForStatus(s)
       THEN /\ outcome' = [outcome EXCEPT ![t] = "raised"]
            /\ pc' = [pc EXCEPT ![t] = "idle"]
            /\ UNCHANGED <<attempt, passed>>
       ELSE /\ passed' = [passed EXCEPT ![t] = @ + 1]
            /\ attempt' = [attempt EXCEPT ![t] = @ + 1]
            /\ IF attempt[t] + 1 <= MAX_RETRIES
               THEN /\ pc' = [pc EXCEPT ![t] = "rl_now"]
                    /\ outcome' = outcome
               ELSE /\ pc' = [pc EXCEPT ![t] = "idle"]
                    /\ outcome' = [outcome EXCEPT ![t] =
                          IF RaisesForStatus(s) THEN "raised" ELSE "returned"]
    /\ UNCHANGED <<clock, last_request_time, callers, upstream, callsLeft,
                   now, wake, nsent, backoffs, numSent, firstSent, prevSent,
                   lastSent, slackLeft, normVars, appVars>>

(***************************************************************************)
(* The passage of time.                                                    *)
(***************************************************************************)
\* The wake-up times of the threads now in time.sleep that lie ahead.
PendingWakes == {wake[t] : t \in {u \in callers : pc[u] \in Sleeping /\ wake[u] > clock}}

NoneUrgent == \A t \in callers : pc[t] \notin Urgent

\* The clock runs on to the next wake-up time of a sleeping thread.
SleepThrough ==
    /\ NoneUrgent
    /\ PendingWakes # {}
    /\ clock' = CHOOSE w \in PendingWakes : \A v \in PendingWakes : w <= v
    /\ UNCHANGED <<last_request_time, callers, upstream, callsLeft, pc, now,
                   wake, attempt, resp, nsent, backoffs, throttled, passed,
                   outcome, numSent, firstSent, prevSent, lastSent,
                   slackLeft, normVars, appVars>>

\* One tick passes: network latency, a sleep that overruns, time between calls.
Tick ==
    /\ NoneUrgent
    /\ slackLeft > 0
    /\ clock' = clock + 1
    /\ slackLeft' = slackLeft - 1
    /\ UNCHANGED <<last_request_time, callers, upstream, callsLeft, pc, now,
                   wake, attempt, resp, nsent, backoffs, throttled, passed,
                   outcome, numSent, firstSent, prevSent, lastSent,
                   normVars, appVars>>

NextGet ==
    \/ \E t \in Threads : CallGet(t)
    \/ \E t \in Threads : RateLimitNow(t)
    \/ \E t \in Threads : RateLimitCheck(t)
    \/ \E t \in Threads : RateLimitWake(t)
    \/ \E t \in Threads : RateLimitStamp(t)
    \/ \E t \in Threads : SendRequest(t)
    \/ \E t \in Threads : Return200(t)
    \/ \E t \in Threads, s \in Statuses : Backoff(t, s)
    \/ \E t \in Threads : BackoffWake(t)
    \/ \E t \in Threads, s \in Statuses : RaiseForStatus(t, s)
    \/ SleepThrough
    \/ Tick

SpecGet == InitGet /\ [][NextGet]_vars
SpecGetConcurrent == InitGetConcurrent /\ [][NextGet]_vars
SpecGetUserAgent == InitGetUserAgent /\ [][NextGet]_vars

(***************************************************************************)
(* Fact rows.  A row is a Python dict; a key that is missing or None is    *)
(* the empty sequence here and a key with value v is <<v>>.  The records   *)
(* of a list are told apart by `value`.                                    *)
(***************************************************************************)
None == <<>>
Some(v) == <<v>>

\* Python compares str by code point: the strings of the model in that order.
StrOrder == <<"", "2023-01-01", "2023-06-01", "2023-12-31", "Goodwill",
              "NetIncomeLoss", "Revenues", "SalesRevenueNet">>

StrIndex(a) == CHOOSE i \in 1..Len(StrOrder) : StrOrder[i] = a

\* a < b on str
StrLess(a, b) == StrIndex(a) < StrIndex(b)

Tags == {"Goodwill", "Revenues", "SalesRevenueNet"}
FiledDates == {"2023-01-01", "2023-06-01"}

\* The (end, fy) of a row: both absent, a fiscal year of 0 or 2023 without an
\* end date, an end date without a fiscal year.
Periods ==
    {[end |-> None, fy |-> None], [end |-> None, fy |-> Some(0)],
     [end |-> None, fy |-> Some(2023)], [end |-> Some("2023-12-31"), fy |-> None]}

RowData == [tag : Tags, period : Periods, filed : FiledDates]

\* A row as company_facts.extract_facts_flat builds it (no canonical_tag yet).
MkRow(d, v) ==
    [tag |-> d.tag, canonical_tag |-> None, unit |-> Some("USD"), value |-> v,
     end |-> d.period.end, fy |-> d.period.fy, fp |-> Some("FY"), filed |-> d.filed]

\* The lists of n rows: row i carries value i.
RowLists(n) == {[i \in 1..n |-> MkRow(f[i], i)] : f \in [1..n -> RowData]}

Range(seq) == {seq[i] : i \in 1..Len(seq)}

(***************************************************************************)
(* config.py: TAG_ALIASES and PRIORITY_CONCEPTS                            *)
(***************************************************************************)
TAG_ALIASES ==
    [t \in {"RevenueFromContractWithCustomerExcludingAssessedTax",
            "RevenueFromContractWithCustomerIncludingAssessedTax",
            "SalesRevenueNet", "SalesRevenueGoodsNet", "SalesRevenueServicesNet",
            "NetIncomeLossAvailableToCommonStockholdersBasic"} |->
        IF t = "NetIncomeLossAvailableToCommonStockholdersBasic"
        THEN "NetIncomeLoss" ELSE "Revenues"]

PRIORITY_CONCEPTS ==
    {"Revenues", "RevenueFromContractWithCustomerExcludingAssessedTax",
     "NetIncomeLoss", "EarningsPerShareBasic", "EarningsPerShareDiluted",
     "Assets", "Liabilities", "StockholdersEquity", "OperatingIncomeLoss",
     "CashAndCashEquivalentsAtCarryingValue", "CommonStockSharesOutstanding"}

(***************************************************************************)
(* normalizer.py                                                           *)
(***************************************************************************)
\* A lookup that never finds an alias.
normalize_tag_identity(tag) == tag

\* normalize_tag: TAG_ALIASES.get(tag, tag)
normalize_tag(tag) == IF tag \in DOMAIN TAG_ALIASES THEN TAG_ALIASES[tag] ELSE tag

\* A key that takes the tag as written.
RowKeyRawTag(row) == <<row.tag, row.end, row.fy, row.fp, row.unit>>

\* deduplicate, lines 21-27: the key of a row.
RowKey(row) == <<normalize_tag(row.tag), row.end, row.fy, row.fp, row.unit>>

\* A comparison that lets a later row of the same date win.
NewerOrSame(row, existing) == ~StrLess(row.filed, existing.filed)

\* deduplicate, line 29: row.get("filed", "") > existing.get("filed", "")
Newer(row, existing) == StrLess(existing.filed, row.filed)

\* deduplicate, lines 28-30: one row is put into `best`, a dict in insertion
\* order, here the sequence of its items.
DedupStep(best, row) ==
    LET key == RowKey(row)
        at == {i \in 1..Len(best) : best[i].key = key}
    IN  IF at = {}
        THEN Append(best, [key |-> key, row |-> row])
        ELSE LET i == CHOOSE j \in at : TRUE
             IN  IF Newer(row, best[i].row)
                 THEN [best EXCEPT ![i].row = row]
                 ELSE best

RECURSIVE DedupLoop(_, _)
DedupLoop(best, rest) ==
    IF rest = <<>> THEN best ELSE DedupLoop(DedupStep(best, Head(rest)), Tail(rest))

\* deduplicate: list(best.values())
deduplicate(rs) ==
    LET best == DedupLoop(<<>>, rs) IN [i \in 1..Len(best) |-> best[i].row]

\* A filter that looks at the tag as written.
filter_priority_raw(rs) == SelectSeq(rs, LAMBDA r : r.tag \in PRIORITY_CONCEPTS)

\* filter_priority
filter_priority(rs) ==
    SelectSeq(rs, LAMBDA r : normalize_tag(r.tag) \in PRIORITY_CONCEPTS)

\* x or "" and x or 0: None and the falsy value itself give the default.
OrEmpty(x) == IF x = None \/ x = Some("") THEN "" ELSE x[1]
OrZero(x) == IF x = None \/ x = Some(0) THEN 0 ELSE x[1]

\* A sort key that takes the tag as written.
SortKeyRawTag(r) == <<r.tag, OrEmpty(r.end), OrZero(r.fy)>>

\* normalize, line 64: the sort key of a row.
SortKey(r) == <<r.canonical_tag[1], OrEmpty(r.end), OrZero(r.fy)>>

\* a < b on the key tuples (str, str, int), as Python compares tuples.
KeyLess(a, b) ==
    \/ StrLess(a[1], b[1])
    \/ a[1] = b[1] /\ StrLess(a[2], b[2])
    \/ a[1] = b[1] /\ a[2] = b[2] /\ a[3] < b[3]

\* An unstable insertion: r goes before the rows that compare equal to it.
InsertBeforeEqual(sorted, r) ==
    LET before == {i \in 1..Len(sorted) : KeyLess(SortKey(sorted[i]), SortKey(r))}
        n == Cardinality(before)
    IN  SubSeq(sorted, 1, n) \o <<r>> \o SubSeq(sorted, n + 1, Len(sorted))

\* list.sort is stable: r goes after every row of the sorted prefix that does
\* not compare greater than it.
Insert(sorted, r) ==
    LET before == {i \in 1..Len(sorted) : ~KeyLess(SortKey(r), SortKey(sorted[i]))}
        n == Cardinality(before)
    IN  SubSeq(sorted, 1, n) \o <<r>> \o SubSeq(sorted, n + 1, Len(sorted))

RECURSIVE SortLoop(_, _)
SortLoop(sorted, rest) ==
    IF rest = <<>> THEN sorted ELSE SortLoop(Insert(sorted, Head(rest)), Tail(rest))

\* normalize, line 64: rows.sort(key=...)
SortRows(rs) == SortLoop(<<>>, rs)

\* An annotation that skips the alias table.
AnnotateRowRaw(row) == [row EXCEPT !.canonical_tag = Some(row.tag)]

\* normalize, line 54: row["canonical_tag"] = normalize_tag(row["tag"])
AnnotateRow(row) == [row EXCEPT !.canonical_tag = Some(normalize_tag(row.tag))]

\* normalize, lines 53-54: every row of the list passed in is annotated.
Annotate(rs) == [i \in 1..Len(rs) |-> AnnotateRow(rs[i])]

\* A pipeline that extends the list by the filtered rows instead of replacing it.
NormalizeResultExtend(annotated, p) ==
    LET deduped == deduplicate(annotated)
    IN  SortRows(IF p THEN deduped \o filter_priority(deduped) ELSE deduped)

\* normalize, lines 56-66: the list returned for the annotated input.
NormalizeResult(annotated, p) ==
    LET deduped == deduplicate(annotated)
        kept == IF p THEN filter_priority(deduped) ELSE deduped
    IN  SortRows(kept)

HttpIdle == InitHttp({}, {}, 0, 0, {0})

InitNormalize ==
    /\ HttpIdle
    /\ AppIdle
    /\ \E n \in 0..MaxRows : facts_rows \in RowLists(n)
    /\ original_rows = facts_rows
    /\ priority_only = FALSE
    /\ rows = <<>>
    /\ prev_rows = <<>>
    /\ ncalls = 0

\* rows = normalize(facts_rows, priority_only=p): the rows of the caller's
\* list are annotated in place, the list returned is a new one.
Normalize(p) ==
    /\ ncalls = 0
    /\ priority_only' = p
    /\ facts_rows' = Annotate(facts_rows)
    /\ rows' = NormalizeResult(Annotate(facts_rows), p)
    /\ prev_rows' = <<>>
    /\ ncalls' = 1
    /\ UNCHANGED <<httpVars, appVars, original_rows>>

\* rows = normalize(rows, priority_only): the list returned is normalized
\* again.  Its rows are rows of the caller's list, annotated once more.
NormalizeAgain ==
    /\ ncalls = 1
    /\ prev_rows' = Annotate(rows)
    /\ facts_rows' = [i \in 1..Len(facts_rows) |->
                         IF facts_rows[i] \in Range(rows)
                         THEN AnnotateRow(facts_rows[i]) ELSE facts_rows[i]]
    /\ rows' = NormalizeResult(Annotate(rows), priority_only)
    /\ ncalls' = 2
    /\ UNCHANGED <<httpVars, appVars, original_rows, priority_only>>

NextNormalize ==
    \/ \E p \in BOOLEAN : Normalize(p)
    \/ NormalizeAgain

SpecNormalize == InitNormalize /\ [][NextNormalize]_vars

(***************************************************************************)
(* Claims about http_client.get.                                           *)
(***************************************************************************)
Finished(t) == pc[t] = "idle" /\ outcome[t] # "none"

\* C1: with one thread calling get, any two consecutive requests are at least
\* REQUEST_DELAY apart on the monotonic clock, so that n requests span at
\* least (n - 1) * REQUEST_DELAY (5 requests at 8 per second: 4/8 second).
C1_MinInterval ==
    /\ prevSent # NoTime => lastSent - prevSent >= REQUEST_DELAY
    /\ numSent >= 1 => lastSent - firstSent >= (numSent - 1) * REQUEST_DELAY
    /\ numSent >= 5 => (lastSent - firstSent) * MAX_REQUESTS_PER_SECOND
                          >= (5 - 1) * TicksPerSecond

\* Five requests sent as fast as the limiter lets them go.
C1_Witness ==
    /\ Cardinality(callers) = 1
    /\ numSent = 5
    /\ lastSent - firstSent = 4 * REQUEST_DELAY

\* C2: with several threads calling get, no two requests of the process are
\* less than REQUEST_DELAY apart.
C2_GlobalInterval ==
    (Cardinality(callers) > 1 /\ numSent >= 2) => lastSent - prevSent >= REQUEST_DELAY

\* C3: a 403/429 on attempt k < MAX_RETRIES is followed by a sleep of
\* BACKOFF_BASE * 2^k and a retry; a call answered by r <= MAX_RETRIES
\* throttled responses and then a 200 returns the 200 after exactly r backoff
\* sleeps of strictly increasing durations.
C3_BackoffThenSuccess ==
    \A t \in callers :
        /\ outcome[t] = "none" => Len(backoffs[t]) = throttled[t]
        /\ pc[t] = "backoff" =>
              /\ resp[t] \in {403, 429}
              /\ attempt[t] < MAX_RETRIES
              /\ backoffs[t][Len(backoffs[t])] = BACKOFF_BASE * (2 ^ attempt[t]) * TicksPerSecond
              /\ wake[t] - BACKOFF_BASE * (2 ^ attempt[t]) * TicksPerSecond >= lastSent
        /\ (Finished(t) /\ resp[t] = 200 /\ passed[t] = 0) =>
              /\ outcome[t] = "returned"
              /\ throttled[t] <= MAX_RETRIES
              /\ nsent[t] = throttled[t] + 1
              /\ Len(backoffs[t]) = throttled[t]
              /\ \A i \in 1..Len(backoffs[t]) :
                    backoffs[t][i] = BACKOFF_BASE * (2 ^ (i - 1)) * TicksPerSecond
              /\ \A i, j \in 1..Len(backoffs[t]) :
                    i < j => backoffs[t][i] < backoffs[t][j]

\* 429, 429, 200: the call has returned after two backoff sleeps.
C3_Witness ==
    \E t \in callers :
        /\ Finished(t)
        /\ outcome[t] = "returned"
        /\ resp[t] = 200
        /\ throttled[t] = 2
        /\ passed[t] = 0
        /\ Len(backoffs[t]) = 2

\* C4: a call whose every attempt is answered 403/429 sends exactly
\* MAX_RETRIES + 1 requests, sleeps exactly MAX_RETRIES backoffs, none after
\* the last attempt, and raises.
C4_RetriesExhausted ==
    \A t \in callers :
        /\ pc[t] = "backoff" => nsent[t] <= MAX_RETRIES
        /\ (Finished(t) /\ throttled[t] = nsent[t]) =>
              /\ nsent[t] = MAX_RETRIES + 1
              /\ Len(backoffs[t]) = MAX_RETRIES
              /\ outcome[t] = "raised"

\* Four throttled responses: the call is over.
C4_Witness ==
    \E t \in callers :
        /\ Finished(t)
        /\ throttled[t] = MAX_RETRIES + 1
        /\ nsent[t] = MAX_RETRIES + 1
        /\ resp[t] \in {403, 429}

\* C5: a response whose status is neither 2xx nor 403/429 ends the call at
\* once with an HTTP error: no further request, no backoff sleep; when it
\* answers the first request, that request is the only one of the call.
C5_FailsImmediately ==
    \A t \in callers :
        (resp[t] # 0 /\ ~(resp[t] >= 200 /\ resp[t] < 300) /\ resp[t] \notin {403, 429}) =>
            /\ Finished(t)
            /\ outcome[t] = "raised"
            /\ (throttled[t] = 0 /\ passed[t] = 0) => nsent[t] = 1 /\ backoffs[t] = <<>>

\* C26: get returns normally only with a response of status 200: a call that
\* does not end on a 200 raises, and no call sends more than MAX_RETRIES + 1
\* requests.
C26_ReturnsOnly200 ==
    \A t \in callers :
        /\ outcome[t] = "returned" => resp[t] = 200
        /\ (Finished(t) /\ resp[t] # 200) => outcome[t] = "raised"
        /\ nsent[t] <= MAX_RETRIES + 1

(***************************************************************************)
(* Claims about normalizer.normalize.                                      *)
(***************************************************************************)
\* The list passed to the latest call, as it was when passed.
Passed == IF ncalls = 2 THEN prev_rows ELSE original_rows

\* The key (canonicalTag, periodEnd, fiscalYear, fiscalPeriod, unit) of a row:
\* of a row passed in, by the alias table; of a row returned, by its annotation.
KeyOfInput(r) ==
    <<IF r.tag \in DOMAIN TAG_ALIASES THEN TAG_ALIASES[r.tag] ELSE r.tag,
      r.end, r.fy, r.fp, r.unit>>
KeyOfOutput(r) == <<r.canonical_tag[1], r.end, r.fy, r.fp, r.unit>>

\* C6: without the priority filter, the list returned holds exactly one row
\* per key of the list passed in: no two rows returned share a key, no key of
\* the input is missing, and aliases of one canonical tag share a key.
C6_OneRowPerKey ==
    (ncalls >= 1 /\ ~priority_only) =>
        /\ \A i, j \in 1..Len(rows) :
              KeyOfOutput(rows[i]) = KeyOfOutput(rows[j]) => i = j
        /\ {KeyOfOutput(r) : r \in Range(rows)} = {KeyOfInput(r) : r \in Range(Passed)}

\* Two aliases of one canonical tag were merged and another key was kept.
C6_Witness ==
    /\ ncalls = 1
    /\ ~priority_only
    /\ Len(rows) = 2
    /\ \E i, j \in 1..Len(original_rows) :
          /\ original_rows[i].tag # original_rows[j].tag
          /\ KeyOfInput(original_rows[i]) = KeyOfInput(original_rows[j])

\* C7: the row returned for a key is, among the rows of that key in the list
\* passed in, one with the greatest filed string, and the first of those in
\* the order of the list.
C7_LatestFiledFirstSeen ==
    ncalls >= 1 =>
        \A r \in Range(rows) :
            \E p \in 1..Len(Passed) :
                /\ Passed[p].value = r.value
                /\ [Passed[p] EXCEPT !.canonical_tag = r.canonical_tag] = r
                /\ \A q \in 1..Len(Passed) :
                      KeyOfInput(Passed[q]) = KeyOfInput(Passed[p]) =>
                          /\ ~StrLess(Passed[p].filed, Passed[q].filed)
                          /\ Passed[q].filed = Passed[p].filed => p <= q

\* A key with an older row and then two rows of the same, latest filed date:
\* the first of the two is returned.
C7_Witness ==
    /\ ncalls = 1
    /\ Len(original_rows) = 3
    /\ Len(rows) = 1
    /\ StrLess(original_rows[1].filed, original_rows[2].filed)
    /\ original_rows[2].filed = original_rows[3].filed
    /\ rows[1].value = 2

\* C8: normalize(normalize(L)) is the same list as normalize(L), with or
\* without the priority filter.
C8_Idempotent == ncalls = 2 => rows = prev_rows

\* The list was normalized twice; the first call dropped a row, reordered the
\* others, and two rows of the result have the same sort key.
C8_Witness ==
    /\ ncalls = 2
    /\ Len(rows) = 2
    /\ Len(original_rows) = 3
    /\ rows[1].value > rows[2].value
    /\ \E i, j \in 1..Len(original_rows) :
          /\ i < j
          /\ original_rows[i].tag = original_rows[j].tag
          /\ original_rows[i].end = original_rows[j].end
          /\ original_rows[i].fy = None
          /\ original_rows[j].fy = Some(0)

\* C9 as claimed: normalize leaves the list passed in and its rows as they were.
C9_InputUntouched == ncalls >= 1 => facts_rows = original_rows

\* C9 as amended: normalize does not add, remove or reorder the rows of the
\* list passed in and changes no field of them but canonical_tag, which it
\* sets on every row of that list, also on those it then drops, to the alias
\* image of the row's tag.
C9_OnlyAnnotated ==
    ncalls >= 1 =>
        /\ Len(facts_rows) = Len(original_rows)
        /\ \A i \in 1..Len(facts_rows) :
              facts_rows[i] =
                  [original_rows[i] EXCEPT !.canonical_tag =
                      Some(IF original_rows[i].tag \in DOMAIN TAG_ALIASES
                           THEN TAG_ALIASES[original_rows[i].tag]
                           ELSE original_rows[i].tag)]

\* A call that annotated an alias row of the caller's list and then dropped a row.
C9_Witness ==
    /\ ncalls = 1
    /\ Len(rows) < Len(facts_rows)
    /\ \E i \in 1..Len(facts_rows) :
          /\ original_rows[i].canonical_tag = None
          /\ facts_rows[i].canonical_tag = Some("Revenues")
          /\ facts_rows[i].tag = "SalesRevenueNet"
          /\ facts_rows[i] \notin Range(rows)

\* (canonicalTag, periodEnd or "", fiscalYear or 0) of a row returned.
ClaimedSortKey(r) ==
    <<r.canonical_tag[1],
      IF r.end = None THEN "" ELSE r.end[1],
      IF r.fy = None THEN 0 ELSE r.fy[1]>>

\* C10: the list returned is sorted: for every adjacent pair the tuple
\* (canonicalTag, periodEnd or "", fiscalYear or 0) does not decrease.
C10_Sorted ==
    ncalls >= 1 =>
        \A i \in 1..(Len(rows) - 1) :
            LET a == ClaimedSortKey(rows[i])
                b == ClaimedSortKey(rows[i + 1])
            IN  \/ StrLess(a[1], b[1])
                \/ a[1] = b[1] /\ StrLess(a[2], b[2])
                \/ a[1] = b[1] /\ a[2] = b[2] /\ a[3] <= b[3]

\* Three rows returned in another order than passed, one without an end date
\* ahead of one with, one without a fiscal year ahead of one with.
C10_Witness ==
    /\ ncalls = 1
    /\ Len(rows) = 3
    /\ rows[1].value > rows[2].value
    /\ rows[1].fy = None /\ rows[2].fy = Some(2023)
    /\ rows[1].canonical_tag = rows[2].canonical_tag
    /\ rows[2].canonical_tag = rows[3].canonical_tag
    /\ rows[2].end = None /\ rows[3].end # None

\* Row p of the list passed in survives deduplication: no row of its key has
\* a greater filed date and no earlier row of its key has the same.
Survives(p) ==
    \A q \in 1..Len(Passed) :
        KeyOfInput(Passed[q]) = KeyOfInput(Passed[p]) =>
            /\ ~StrLess(Passed[p].filed, Passed[q].filed)
            /\ Passed[q].filed = Passed[p].filed => p <= q

\* C11: with the priority filter, the list returned holds exactly the
\* survivors of deduplication whose canonical tag is a priority concept: a
\* Goodwill row never appears, a surviving Revenues row is never dropped.
C11_PriorityFilter ==
    (ncalls >= 1 /\ priority_only) =>
        /\ {r.value : r \in Range(rows)} =
              {Passed[p].value : p \in {q \in 1..Len(Passed) :
                  Survives(q) /\ KeyOfInput(Passed[q])[1] \in PRIORITY_CONCEPTS}}
        /\ \A r \in Range(rows) : r.tag # "Goodwill"

\* A Goodwill row was dropped and an alias row of Revenues, the survivor of
\* its key, was kept.
C11_Witness ==
    /\ ncalls = 1
    /\ priority_only
    /\ Len(original_rows) = 3
    /\ \E i \in 1..3 : original_rows[i].tag = "Goodwill"
    /\ Len(rows) = 1
    /\ rows[1].tag = "SalesRevenueNet"

\* C12: every row returned is a row of the list passed in, no row passed in
\* is returned twice, and the list returned is no longer than the list passed.
C12_NeverLarger ==
    ncalls >= 1 =>
        /\ Len(rows) <= Len(Passed)
        /\ \A i \in 1..Len(rows) :
              \E p \in 1..Len(Passed) :
                  [Passed[p] EXCEPT !.canonical_tag = rows[i].canonical_tag] = rows[i]
        /\ \A i, j \in 1..Len(rows) : rows[i].value = rows[j].value => i = j

\* Three rows went in, two came out; and a call that returned all it was given.
C12_Witness ==
    /\ ncalls = 2
    /\ Len(original_rows) = 3
    /\ Len(prev_rows) = 2
    /\ Len(rows) = 2

\* C13: every row returned carries as canonical_tag the alias-table image of
\* its tag, or the tag itself when the table has no entry for it
\* (SalesRevenueNet: Revenues), and no alias target is a key of the table.
C13_CanonicalTag ==
    /\ ncalls >= 1 =>
          \A r \in Range(rows) :
              /\ r.tag \in DOMAIN TAG_ALIASES => r.canonical_tag = Some(TAG_ALIASES[r.tag])
              /\ r.tag \notin DOMAIN TAG_ALIASES => r.canonical_tag = Some(r.tag)
              /\ r.tag = "SalesRevenueNet" => r.canonical_tag = Some("Revenues")
    /\ \A k \in DOMAIN TAG_ALIASES : TAG_ALIASES[k] \notin DOMAIN TAG_ALIASES

\* A SalesRevenueNet row and a Goodwill row were returned.
C13_Witness ==
    /\ ncalls = 1
    /\ \E r \in Range(rows) : r.tag = "SalesRevenueNet" /\ r.canonical_tag = Some("Revenues")
    /\ \E r \in Range(rows) : r.tag = "Goodwill" /\ r.canonical_tag = Some("Goodwill")

(***************************************************************************)
(* submissions.fetch and submissions._parse_filings.                       *)
(*                                                                         *)
(* A filings section (the "recent" object of the primary document, or an   *)
(* overflow document) is a dict of parallel arrays: here the sequence of   *)
(* its columns in key order, each column a key and the array of its        *)
(* values.  The cell at index i of column k of section s is the form type  *)
(* of the filing for k = "form" and the triple <<k, s, i>> otherwise, so   *)
(* that every cell of a document is told apart from every other cell.      *)
(* http_client.get and Response.json are abstracted: a request either      *)
(* delivers the decoded document or raises.                                *)
(***************************************************************************)
MaxPageRows == 2         \* length of an array of a filings section

KEY_FORM_TYPES == {"10-K", "10-Q", "8-K", "DEF 14A", "S-1"}

SectionKeys == <<"accessionNumber", "filingDate", "form">>

FormTypes == <<"10-K", "4", "8-K">>

OverflowNames == <<"CIK0000320193-submissions-001.json",
                   "CIK0000320193-submissions-002.json">>

PrimaryName == "CIK0000320193.json"

Cell(k, s, i) ==
    IF k = "form" THEN FormTypes[((s + i) % Len(FormTypes)) + 1] ELSE <<k, s, i>>

\* The section number s whose columns have the lengths lens[1], lens[2], ...
Section(s, lens) ==
    [j \in 1..Len(SectionKeys) |->
        [key |-> SectionKeys[j],
         vals |-> [i \in 1..lens[j] |-> Cell(SectionKeys[j], s, i)]]]

\* The sections a document can hold: none ({}), or the three arrays, each of
\* any length up to MaxPageRows.
Sections(s) ==
    {<<>>} \cup {Section(s, lens) : lens \in [1..Len(SectionKeys) -> 0..MaxPageRows]}

SectionKeySet(recent) == {recent[j].key : j \in 1..Len(recent)}

\* recent[k]
Column(recent, k) == (CHOOSE j \in 1..Len(recent) : recent[j].key = k)

\* filing.get("form", "")
FormOf(recent, i) ==
    IF "form" \in SectionKeySet(recent)
    THEN recent[Column(recent, "form")].vals[i] ELSE ""

\* {k: recent[k][i] for k in keys} with filing["isKeyForm"] set
Filing(recent, i) ==
    [k \in SectionKeySet(recent) \cup {"isKeyForm"} |->
        IF k = "isKeyForm" THEN FormOf(recent, i) \in KEY_FORM_TYPES
        ELSE recent[Column(recent, k)].vals[i]]

\* len(recent[keys[0]]) if keys else 0
Count(recent) == IF Len(recent) > 0 THEN Len(recent[1].vals) ELSE 0

\* The loop of _parse_filings from index i on; recent[k][i] raises IndexError
\* when the array of k has no index i.
RECURSIVE ParseLoop(_, _, _)
ParseLoop(recent, i, acc) ==
    IF i > Count(recent) THEN [raised |-> FALSE, filings |-> acc]
    ELSE IF \E j \in 1..Len(recent) : Len(recent[j].vals) < i
         THEN [raised |-> TRUE, filings |-> <<>>]
         ELSE ParseLoop(recent, i + 1, Append(acc, Filing(recent, i)))

_parse_filings(recent) == ParseLoop(recent, 1, <<>>)

ExtendInFront(list, more) == more \o list

\* list.extend(more)
Extend(list, more) == list \o more

InitSubmissions ==
    /\ HttpIdle
    /\ NormalizeIdle
    /\ ResolveIdle
    /\ MainIdle
    /\ RestIdle
    /\ \E k \in 0..Len(OverflowNames) : \E recent \in Sections(0) :
          data = [recent |-> recent,
                  files |-> [i \in 1..k |-> [name |-> OverflowNames[i]]]]
    /\ overflow_docs = <<>>
    /\ fetch_pc = "start"
    /\ filings = <<>>
    /\ ref_index = 0
    /\ requests_made = <<>>

\* data = http_client.get(url).json(); filings = _parse_filings(recent)
FetchPrimary(ok) ==
    /\ fetch_pc = "start"
    /\ requests_made' = Append(requests_made, PrimaryName)
    /\ LET parsed == _parse_filings(data.recent)
       IN  IF ok /\ ~parsed.raised
           THEN fetch_pc' = "loop" /\ filings' = parsed.filings
           ELSE fetch_pc' = "raised" /\ filings' = filings
    /\ UNCHANGED <<httpVars, normVars, resVars, mainVars, restVars, data, overflow_docs, ref_index>>

\* One iteration of `for ref in overflow_files`; the request is answered with
\* the document overflow_data, or it raises.
FetchOverflow(ok, overflow_data) ==
    /\ fetch_pc = "loop"
    /\ ref_index < Len(data.files)
    /\ requests_made' = Append(requests_made, data.files[ref_index + 1].name)
    /\ ref_index' = ref_index + 1
    /\ LET parsed == _parse_filings(overflow_data)
       IN  IF ok /\ ~parsed.raised
           THEN fetch_pc' = "loop" /\ filings' = Extend(filings, parsed.filings)
           ELSE fetch_pc' = "raised" /\ filings' = filings
    /\ overflow_docs' = IF ok THEN Append(overflow_docs, overflow_data)
                        ELSE overflow_docs
    /\ UNCHANGED <<httpVars, normVars, resVars, mainVars, restVars, data>>

\* return {"company": company, "filings": filings}
FetchReturn ==
    /\ fetch_pc = "loop"
    /\ ref_index = Len(data.files)
    /\ fetch_pc' = "returned"
    /\ UNCHANGED <<httpVars, normVars, resVars, mainVars, restVars, data, overflow_docs, filings, ref_index,
                   requests_made>>

NextSubmissions ==
    \/ \E ok \in BOOLEAN : FetchPrimary(ok)
    \/ \E ok \in BOOLEAN : \E overflow_data \in Sections(ref_index + 1) :
          FetchOverflow(ok, overflow_data)
    \/ FetchReturn

SpecSubmissions == InitSubmissions /\ [][NextSubmissions]_vars

(***************************************************************************)
(* Claims about submissions.fetch.                                         *)
(***************************************************************************)
\* All arrays of the section have one length: the section has that many rows.
WellFormed(recent) ==
    \A j \in 1..Len(recent) : Len(recent[j].vals) = Count(recent)

RECURSIVE RowsBefore(_)
\* The rows of the recent section and of the overflow pages 1..k together.
RowsBefore(k) ==
    IF k = 0 THEN Count(data.recent)
    ELSE RowsBefore(k - 1) + Count(overflow_docs[k])

\* Row i of section `recent` is the filing at position p of the result.
RowAt(recent, i, p) ==
    \A j \in 1..Len(recent) : filings[p][recent[j].key] = recent[j].vals[i]

\* C14: when the recent section has N rows and the overflow pages listed have
\* M1..Mk rows, fetch returns N + M1 + ... + Mk filings: the recent rows in
\* index order, then the rows of each page in the order the pages are listed;
\* and it has made the primary request and then exactly one request per page
\* listed, in that order.
C14_Pagination ==
    (/\ fetch_pc = "returned"
     /\ WellFormed(data.recent)
     /\ \A k \in 1..Len(data.files) : WellFormed(overflow_docs[k])) =>
        /\ Len(filings) = RowsBefore(Len(data.files))
        /\ \A i \in 1..Count(data.recent) : RowAt(data.recent, i, i)
        /\ \A k \in 1..Len(data.files) : \A i \in 1..Count(overflow_docs[k]) :
              RowAt(overflow_docs[k], i, RowsBefore(k - 1) + i)
        /\ requests_made =
              <<PrimaryName>> \o [k \in 1..Len(data.files) |-> data.files[k].name]

C14_Witness ==
    /\ fetch_pc = "returned"
    /\ WellFormed(data.recent)
    /\ Count(data.recent) = MaxPageRows
    /\ Len(data.files) = Len(OverflowNames)
    /\ \A k \in 1..Len(data.files) :
          WellFormed(overflow_docs[k]) /\ Count(overflow_docs[k]) > 0
    /\ Len(filings) = RowsBefore(Len(data.files))
    /\ Len(requests_made) = 1 + Len(OverflowNames)

(***************************************************************************)
(* cik_resolver: the ticker-map cache and resolve.                         *)
(*                                                                         *)
(* A str is the sequence of its characters, so that strip, upper, str and  *)
(* zfill are computed.  The wall clock and the modification time of the    *)
(* cache file count hours.  The raw table (the JSON object keyed "0",      *)
(* "1", ...) is the sequence of its entries.  http_client.get and          *)
(* Response.json are abstracted: the request for the table either delivers *)
(* it or raises.                                                           *)
(***************************************************************************)
MaxTickers == 2          \* length of the tickers argument of resolve
MaxResolveCalls == 2     \* calls of resolve, one after the other

TICKER_CACHE_MAX_AGE_HOURS == 24

ZFILL_WIDTH == 10

Whitespace == {" "}

LowerToUpper == [a |-> "A", b |-> "B", z |-> "Z"]

UpperChar(c) == IF c \in DOMAIN LowerToUpper THEN LowerToUpper[c] ELSE c

\* s.upper()
upper(s) == [i \in 1..Len(s) |-> UpperChar(s[i])]

RECURSIVE lstrip(_)
lstrip(s) == IF s # <<>> /\ Head(s) \in Whitespace THEN lstrip(Tail(s)) ELSE s

RECURSIVE rstrip(_)
rstrip(s) ==
    IF s # <<>> /\ s[Len(s)] \in Whitespace THEN rstrip(SubSeq(s, 1, Len(s) - 1)) ELSE s

\* s.strip()
strip(s) == rstrip(lstrip(s))

DigitChars == <<"0", "1", "2", "3", "4", "5", "6", "7", "8", "9">>

RECURSIVE str(_)
\* str(n) of an int n >= 0
str(n) == IF n < 10 THEN <<DigitChars[n + 1]>>
          ELSE str(n \div 10) \o <<DigitChars[(n % 10) + 1]>>

RECURSIVE zfill(_, _)
\* s.zfill(width) of a str without sign
zfill(s, width) == IF Len(s) >= width THEN s ELSE zfill(<<"0">> \o s, width)

\* The entries of the upstream table, and the tables served or cached.
Apple == [cik_str |-> 320193, ticker |-> <<"A", "A">>, title |-> "Apple Inc."]

AAR == [cik_str |-> 1750, ticker |-> <<"b">>, title |-> "AAR CORP"]

Tables == {<<>>, <<Apple>>, <<Apple, AAR>>}

\* What a caller passes as one ticker.
RawTickers == {<<"A", "A">>, <<"a", "a">>, <<" ", "a", "A", " ">>, <<"B">>, <<"Z", "Z">>}

TickerLists(n) == [1..n -> RawTickers]

CacheIsFreshInclusive(file, t) ==
    /\ file # <<>>
    /\ t - file[1].mtime <= TICKER_CACHE_MAX_AGE_HOURS

\* _cache_is_fresh() at time t, the cache file being `file`
_cache_is_fresh(file, t) ==
    /\ file # <<>>
    /\ t - file[1].mtime < TICKER_CACHE_MAX_AGE_HOURS

RECURSIVE BuildLoop(_, _, _)
\* for entry in raw.values(): ticker_map[entry["ticker"].upper()] = entry
BuildLoop(raw, j, tm) ==
    IF j > Len(raw) THEN tm
    ELSE LET key == upper(raw[j].ticker)
         IN  BuildLoop(raw, j + 1,
                       [k \in DOMAIN tm \cup {key} |-> IF k = key THEN raw[j] ELSE tm[k]])

BuildTickerMap(raw) == BuildLoop(raw, 1, <<>>)

\* results[key] = cik: the value of a key already there is replaced in place.
Put(results, key, cik) ==
    IF \E j \in 1..Len(results) : results[j].ticker = key
    THEN [j \in 1..Len(results) |->
             IF results[j].ticker = key THEN [ticker |-> key, cik |-> cik]
             ELSE results[j]]
    ELSE Append(results, [ticker |-> key, cik |-> cik])

RECURSIVE ResolveLoopSkipMissing(_, _, _, _)
ResolveLoopSkipMissing(tm, ts, i, results) ==
    IF i > Len(ts) THEN [kind |-> "returned", results |-> results, key |-> <<>>]
    ELSE LET key == upper(strip(ts[i]))
         IN  IF key \in DOMAIN tm
             THEN ResolveLoopSkipMissing(tm, ts, i + 1,
                      Put(results, key, zfill(str(tm[key].cik_str), ZFILL_WIDTH)))
             ELSE ResolveLoopSkipMissing(tm, ts, i + 1, results)

RECURSIVE ResolveLoop(_, _, _, _)
\* The loop of resolve from ticker i on; the KeyError carries the key.
ResolveLoop(tm, ts, i, results) ==
    IF i > Len(ts) THEN [kind |-> "returned", results |-> results, key |-> <<>>]
    ELSE LET key == upper(strip(ts[i]))
         IN  IF key \in DOMAIN tm
             THEN ResolveLoop(tm, ts, i + 1,
                      Put(results, key, zfill(str(tm[key].cik_str), ZFILL_WIDTH)))
             ELSE [kind |-> "KeyError", results |-> <<>>, key |-> key]

\* The time between two calls of resolve, in hours.
Gaps == {0, TICKER_CACHE_MAX_AGE_HOURS - 1, TICKER_CACHE_MAX_AGE_HOURS,
         TICKER_CACHE_MAX_AGE_HOURS + 1}

\* The cache file is missing, or was written at time 0 with some table.
InitResolve ==
    /\ HttpIdle
    /\ NormalizeIdle
    /\ SubmissionsIdle
    /\ MainIdle
    /\ RestIdle
    /\ wall_clock = 0
    /\ cache \in {<<>>} \cup {<<[mtime |-> 0, content |-> c]>> : c \in Tables}
    /\ cache_before = <<>>
    /\ sec_table \in Tables
    /\ \E n \in 0..MaxTickers : tickers \in TickerLists(n)
    /\ resolve_pc = "idle"
    /\ ticker_map = <<>>
    /\ resolved = NoOutcome
    /\ load_log = <<>>
    /\ resolve_calls = 0

\* resolve(tickers) is called, h hours after the call before returned.
ResolveCall(h) ==
    /\ resolve_pc = "idle"
    /\ resolve_calls < MaxResolveCalls
    /\ wall_clock' = wall_clock + h
    /\ resolve_calls' = resolve_calls + 1
    /\ cache_before' = cache
    /\ ticker_map' = <<>>
    /\ resolved' = NoOutcome
    /\ resolve_pc' = "load"
    /\ UNCHANGED <<httpVars, normVars, subVars, restVars, mainVars, cache, sec_table, tickers, load_log>>

\* _load_ticker_map, the cache being fresh: raw = json.load(f)
LoadFromCache ==
    /\ resolve_pc = "load"
    /\ _cache_is_fresh(cache, wall_clock)
    /\ ticker_map' = BuildTickerMap(cache[1].content)
    /\ load_log' = Append(load_log, [at |-> wall_clock, requests |-> 0, delivered |-> FALSE])
    /\ resolve_pc' = "loop"
    /\ UNCHANGED <<httpVars, normVars, subVars, restVars, mainVars, wall_clock, cache, cache_before, sec_table,
                   tickers, resolved, resolve_calls>>

\* _load_ticker_map, the cache not being fresh: the table is requested and, if
\* the request delivers it, written to the cache file.
FetchTickerMap(ok) ==
    /\ resolve_pc = "load"
    /\ ~_cache_is_fresh(cache, wall_clock)
    /\ load_log' = Append(load_log, [at |-> wall_clock, requests |-> 1, delivered |-> ok])
    /\ IF ok
       THEN /\ cache' = <<[mtime |-> wall_clock, content |-> sec_table]>>
            /\ ticker_map' = BuildTickerMap(sec_table)
            /\ resolve_pc' = "loop"
            /\ resolved' = resolved
       ELSE /\ resolved' = [kind |-> "raised", results |-> <<>>, key |-> <<>>]
            /\ resolve_pc' = "idle"
            /\ UNCHANGED <<cache, ticker_map>>
    /\ UNCHANGED <<httpVars, normVars, subVars, restVars, mainVars, wall_clock, cache_before, sec_table, tickers,
                   resolve_calls>>

\* The loop of resolve and its return or KeyError.
ResolveTickers ==
    /\ resolve_pc = "loop"
    /\ resolved' = ResolveLoop(ticker_map, tickers, 1, <<>>)
    /\ resolve_pc' = "idle"
    /\ UNCHANGED <<httpVars, normVars, subVars, restVars, mainVars, wall_clock, cache, cache_before, sec_table,
                   tickers, ticker_map, load_log, resolve_calls>>

NextResolve ==
    \/ \E h \in Gaps : ResolveCall(h)
    \/ LoadFromCache
    \/ \E ok \in BOOLEAN : FetchTickerMap(ok)
    \/ ResolveTickers

SpecResolve == InitResolve /\ [][NextResolve]_vars

(***************************************************************************)
(* Claims about cik_resolver.resolve.                                      *)
(***************************************************************************)
\* k is the ticker t without the whitespace around it, in upper case.
IsKeyOf(k, t) ==
    /\ \A i \in 1..Len(k) : k[i] \notin DOMAIN LowerToUpper
    /\ k # <<>> => (k[1] \notin Whitespace /\ k[Len(k)] \notin Whitespace)
    /\ \E a \in 0..Len(t) :
          /\ a + Len(k) <= Len(t)
          /\ \A i \in 1..Len(t) :
                IF i <= a \/ i > a + Len(k) THEN t[i] \in Whitespace
                ELSE k[i - a] = UpperChar(t[i])

\* The requested tickers that are not in the ticker map, by position.
Unmatched == {i \in 1..Len(tickers) : ~\E k \in DOMAIN ticker_map : IsKeyOf(k, tickers[i])}

RECURSIVE DecimalValue(_)
\* The number a str of digits denotes.
DecimalValue(s) ==
    IF s = <<>> THEN 0
    ELSE 10 * DecimalValue(SubSeq(s, 1, Len(s) - 1))
         + (CHOOSE d \in 0..9 : DigitChars[d + 1] = s[Len(s)])

\* resolve has gone through its loop: the ticker map was loaded.
ResolveDone == resolve_pc = "idle" /\ resolved.kind \in {"returned", "KeyError"}

\* C15: resolve is all-or-nothing.  If a requested ticker is not in the ticker
\* map, resolve raises KeyError for the first such ticker in request order and
\* returns no mapping; otherwise it returns a mapping with, for every
\* requested ticker, its stripped upper-case form as key and the identifier
\* of that key, padded with zeros to 10 digits, as value, and nothing else.
C15_AllOrNothing ==
    ResolveDone =>
        IF Unmatched # {}
        THEN /\ resolved.kind = "KeyError"
             /\ resolved.results = <<>>
             /\ \E i \in Unmatched :
                   /\ \A j \in Unmatched : i <= j
                   /\ IsKeyOf(resolved.key, tickers[i])
        ELSE /\ resolved.kind = "returned"
             /\ \A i \in 1..Len(tickers) : \E j \in 1..Len(resolved.results) :
                   IsKeyOf(resolved.results[j].ticker, tickers[i])
             /\ \A j \in 1..Len(resolved.results) :
                   /\ \E i \in 1..Len(tickers) :
                         IsKeyOf(resolved.results[j].ticker, tickers[i])
                   /\ Len(resolved.results[j].cik) = 10
                   /\ \A c \in 1..10 : resolved.results[j].cik[c] \in Range(DigitChars)
                   /\ DecimalValue(resolved.results[j].cik) =
                         ticker_map[resolved.results[j].ticker].cik_str
                   /\ \A j2 \in 1..Len(resolved.results) :
                         resolved.results[j2].ticker = resolved.results[j].ticker => j2 = j

\* A ticker that matches is followed by one that does not: KeyError, nothing
\* returned.
C15_Witness ==
    /\ ResolveDone
    /\ Len(tickers) = 2
    /\ Unmatched = {2}
    /\ resolved.kind = "KeyError"
    /\ resolved.key = <<"B">>

\* The latest call of resolve has loaded the ticker map, or failed to.
Loaded == resolve_calls >= 1 /\ Len(load_log) = resolve_calls

LatestLoad == load_log[resolve_calls]

\* C20: the table is requested if and only if the cache file is missing or
\* its age is at least 24 hours; a call that finds a younger cache file makes
\* no request and takes the map from the file; after a request that delivered
\* the table the file holds that table, and a call of resolve that follows at
\* once makes no request and resolves with the table fetched.
C20_CacheFreshness ==
    Loaded =>
        /\ LatestLoad.requests \in {0, 1}
        /\ LatestLoad.requests = 1 <=>
              (cache_before = <<>> \/ wall_clock - cache_before[1].mtime >= 24)
        /\ LatestLoad.requests = 0 =>
              /\ cache = cache_before
              /\ resolve_pc = "loop" => ticker_map = BuildTickerMap(cache_before[1].content)
        /\ (LatestLoad.requests = 1 /\ LatestLoad.delivered) =>
              cache = <<[mtime |-> wall_clock, content |-> sec_table]>>
        /\ (/\ resolve_calls >= 2
            /\ load_log[resolve_calls - 1].requests = 1
            /\ load_log[resolve_calls - 1].delivered
            /\ load_log[resolve_calls - 1].at = LatestLoad.at) =>
              /\ LatestLoad.requests = 0
              /\ resolve_pc = "loop" => ticker_map = BuildTickerMap(sec_table)

\* A call fetches the table because the file is exactly 24 hours old, and the
\* call that follows at once is served from the file.
C20_Witness ==
    /\ resolve_calls = 2
    /\ Loaded
    /\ resolve_pc = "loop"
    /\ load_log[1].requests = 1
    /\ load_log[1].delivered
    /\ load_log[1].at = 24
    /\ load_log[2].at = 24
    /\ load_log[2].requests = 0
    /\ sec_table # <<>>

(***************************************************************************)
(* main and _run_ticker: a batch run over the tickers of the command line. *)
(*                                                                         *)
(* The stages are abstracted to their outcome.  Loading the ticker map     *)
(* succeeds or raises; a fetch of submissions or of company facts is       *)
(* answered with a document (with rows or without) or fails with one of    *)
(* the exceptions http_client.get and Response.json raise.  The rows of a  *)
(* document are one token.  The writers of storage.py do not fail.         *)
(***************************************************************************)
Formats == {"csv", "json", "sqlite"}

\* requests.HTTPError (raise_for_status, also after the retries are used up),
\* requests.ConnectionError (transport), JSONDecodeError (body): all of them
\* subclasses of Exception.
FailureKinds == {"HTTPError", "ConnectionError", "JSONDecodeError"}

SubmissionsReplies == {"filings", "no_filings"} \cup FailureKinds

FactsReplies == {"facts", "no_facts"} \cup FailureKinds

InitMain ==
    /\ HttpIdle
    /\ NormalizeIdle
    /\ SubmissionsIdle
    /\ RestIdle
    /\ wall_clock = 0
    /\ cache = <<>>
    /\ cache_before = <<>>
    /\ sec_table \in Tables
    /\ \E n \in 1..MaxTickers : tickers \in TickerLists(n)
    /\ resolve_pc = "idle"
    /\ ticker_map = <<>>
    /\ resolved = NoOutcome
    /\ load_log = <<>>
    /\ resolve_calls = 0
    /\ args \in [facts_only : BOOLEAN, filings_only : BOOLEAN, format : Formats]
    /\ main_pc = "start"
    /\ cik_map = <<>>
    /\ entity = 0
    /\ run_pc = "idle"
    /\ result = NoResult
    /\ written = <<>>
    /\ reported = <<>>
    /\ stage_log = <<>>
    /\ exit_status = <<>>

AfterErrorAbort(i, n) == n + 1

\* except Exception: ...; continue -- the loop goes on with the next entity
AfterError(i, n) == i + 1

StatusAfterLoopByErrors(errors) == IF errors = <<>> THEN 0 ELSE 1

\* return 0 at the end of main
StatusAfterLoop(errors) == 0

company_facts_fetch_raising(reply) ==
    [raised |-> reply \in FailureKinds, data |-> reply]

\* company_facts.fetch: the decoded document, or {} when anything was raised
company_facts_fetch(reply) ==
    [raised |-> FALSE, data |-> IF reply \in FailureKinds THEN "no_facts" ELSE reply]

\* Stage 1 of main: cik_resolver.resolve(args.tickers); KeyError is caught and
\* main returns 1, any other exception leaves main and the interpreter exits
\* with status 1.
MainResolve(loaded) ==
    /\ main_pc = "start"
    /\ IF ~loaded
       THEN /\ resolved' = [kind |-> "raised", results |-> <<>>, key |-> <<>>]
            /\ main_pc' = "raised"
            /\ exit_status' = <<1>>
            /\ UNCHANGED <<ticker_map, cik_map, entity, run_pc>>
       ELSE LET tm == BuildTickerMap(sec_table)
                r == ResolveLoop(tm, tickers, 1, <<>>)
            IN  /\ ticker_map' = tm
                /\ resolved' = r
                /\ IF r.kind = "KeyError"
                   THEN /\ main_pc' = "returned"
                        /\ exit_status' = <<1>>
                        /\ UNCHANGED <<cik_map, entity, run_pc>>
                   ELSE /\ main_pc' = "loop"
                        /\ cik_map' = r.results
                        /\ entity' = 1
                        /\ run_pc' = "submissions"
                        /\ exit_status' = exit_status
    /\ UNCHANGED <<httpVars, normVars, subVars, restVars, wall_clock, cache, cache_before, sec_table,
                   tickers, resolve_pc, load_log, resolve_calls, args, result, written,
                   reported, stage_log>>

InLoop == main_pc = "loop" /\ entity <= Len(cik_map)

Ticker == cik_map[entity].ticker

Logged(stage, reply) == Append(stage_log, [ticker |-> Ticker, stage |-> stage, reply |-> reply])

\* _run_ticker raised: main prints the error and continues.
RunTickerRaised ==
    /\ reported' = Append(reported, Ticker)
    /\ entity' = AfterError(entity, Len(cik_map))
    /\ run_pc' = "submissions"
    /\ result' = NoResult

\* _run_ticker with --facts-only: no submissions are fetched.
SkipSubmissions ==
    /\ InLoop
    /\ run_pc = "submissions"
    /\ args.facts_only
    /\ result' = NoResult
    /\ run_pc' = "facts"
    /\ UNCHANGED <<httpVars, normVars, subVars, restVars, resVars, args, main_pc, cik_map, entity,
                   written, reported, stage_log, exit_status>>

\* sub = submissions.fetch(cik): its exceptions leave _run_ticker.
FetchSubmissions(reply) ==
    /\ InLoop
    /\ run_pc = "submissions"
    /\ ~args.facts_only
    /\ stage_log' = Logged("submissions", reply)
    /\ IF reply \in FailureKinds
       THEN RunTickerRaised
       ELSE /\ result' = [filings |-> IF reply = "filings" THEN <<"filing">> ELSE <<>>,
                          facts |-> <<>>]
            /\ run_pc' = "facts"
            /\ UNCHANGED <<reported, entity>>
    /\ UNCHANGED <<httpVars, normVars, subVars, restVars, resVars, args, main_pc, cik_map, written,
                   exit_status>>

\* _run_ticker with --filings-only: no facts are fetched.
SkipFacts ==
    /\ InLoop
    /\ run_pc = "facts"
    /\ args.filings_only
    /\ run_pc' = "write"
    /\ UNCHANGED <<httpVars, normVars, subVars, restVars, resVars, args, main_pc, cik_map, entity,
                   result, written, reported, stage_log, exit_status>>

\* raw_facts = company_facts.fetch(cik); if raw_facts: ... else: facts = []
FetchFacts(reply) ==
    /\ InLoop
    /\ run_pc = "facts"
    /\ ~args.filings_only
    /\ stage_log' = Logged("facts", reply)
    /\ LET raw_facts == company_facts_fetch(reply)
       IN  IF raw_facts.raised
           THEN RunTickerRaised
           ELSE /\ result' = [result EXCEPT !.facts =
                                 IF raw_facts.data = "facts" THEN <<"fact">> ELSE <<>>]
                /\ run_pc' = "write"
                /\ UNCHANGED <<reported, entity>>
    /\ UNCHANGED <<httpVars, normVars, subVars, restVars, resVars, args, main_pc, cik_map, written,
                   exit_status>>

\* The files _run_ticker writes for ticker t in format fmt.
Outputs(t, fmt, res) ==
    IF fmt = "csv"
    THEN (IF res.filings # <<>>
          THEN <<[ticker |-> t, file |-> "filings.csv", filings |-> res.filings,
                  facts |-> <<>>]>>
          ELSE <<>>)
         \o (IF res.facts # <<>>
             THEN <<[ticker |-> t, file |-> "facts.csv", filings |-> <<>>,
                     facts |-> res.facts]>>
             ELSE <<>>)
    ELSE <<[ticker |-> t, file |-> fmt, filings |-> res.filings, facts |-> res.facts]>>

\* The output of _run_ticker is written and it returns.
WriteOutput ==
    /\ InLoop
    /\ run_pc = "write"
    /\ written' = written \o Outputs(Ticker, args.format, result)
    /\ stage_log' = Logged("write", "ok")
    /\ entity' = entity + 1
    /\ run_pc' = "submissions"
    /\ result' = NoResult
    /\ UNCHANGED <<httpVars, normVars, subVars, restVars, resVars, args, main_pc, cik_map, reported,
                   exit_status>>

\* The loop over cik_map is over: print("Done."); return 0
MainReturn ==
    /\ main_pc = "loop"
    /\ entity > Len(cik_map)
    /\ main_pc' = "returned"
    /\ exit_status' = <<StatusAfterLoop(reported)>>
    /\ UNCHANGED <<httpVars, normVars, subVars, restVars, resVars, args, cik_map, entity, run_pc,
                   result, written, reported, stage_log>>

NextMain ==
    \/ \E loaded \in BOOLEAN : MainResolve(loaded)
    \/ SkipSubmissions
    \/ \E reply \in SubmissionsReplies : FetchSubmissions(reply)
    \/ SkipFacts
    \/ \E reply \in FactsReplies : FetchFacts(reply)
    \/ WriteOutput
    \/ MainReturn

SpecMain == InitMain /\ [][NextMain]_vars

(***************************************************************************)
(* Claims about the batch run of main.                                     *)
(***************************************************************************)
MainOver == main_pc \in {"returned", "raised"}

\* The log entries of ticker key t for a stage.
StageReplies(t, stage) ==
    {stage_log[n].reply : n \in {m \in 1..Len(stage_log) :
                                    stage_log[m].ticker = t /\ stage_log[m].stage = stage}}

Touched(t) == \E n \in 1..Len(stage_log) : stage_log[n].ticker = t

IsReported(t) == \E n \in 1..Len(reported) : reported[n] = t

OutputsOf(t) == {n \in 1..Len(written) : written[n].ticker = t}

\* C16: in a batch run a ticker that does not resolve is fatal for that
\* ticker only: when main is over and the ticker map was loaded, every ticker
\* of the command line that is in the ticker map has been fetched and
\* processed.
C16_SiblingsProcessed ==
    (MainOver /\ resolved.kind # "raised") =>
        \A i \in 1..Len(tickers) : \A k \in DOMAIN ticker_map :
            IsKeyOf(k, tickers[i]) => Touched(k)

\* C17: when processing an entity raises, the entity is reported and nothing
\* is written for it; and every entity of the batch is processed, whatever
\* happened to the entities before it: when main returns each entity was
\* either written or reported, and its submissions were requested unless
\* --facts-only was given.
C17_EntitySkipped ==
    main_pc \in {"loop", "returned"} =>
        \A e \in 1..Len(cik_map) :
            LET t == cik_map[e].ticker
            IN  /\ StageReplies(t, "submissions") \cap FailureKinds # {} => IsReported(t)
                /\ IsReported(t) => OutputsOf(t) = {} /\ StageReplies(t, "write") = {}
                /\ main_pc = "returned" =>
                      /\ IsReported(t) \/ StageReplies(t, "write") # {}
                      /\ ~args.facts_only => StageReplies(t, "submissions") # {}

\* The first of two entities fails in its submissions fetch, the second is
\* fetched and written.
C17_Witness ==
    /\ main_pc = "returned"
    /\ Len(cik_map) = 2
    /\ reported = <<cik_map[1].ticker>>
    /\ StageReplies(cik_map[1].ticker, "submissions") = {"HTTPError"}
    /\ OutputsOf(cik_map[1].ticker) = {}
    /\ StageReplies(cik_map[2].ticker, "submissions") = {"filings"}
    /\ OutputsOf(cik_map[2].ticker) # {}

\* C18: the exit status depends on resolution only: it is 0 when resolve
\* returned a mapping, whatever happened to the entities, and not 0 when
\* resolve raised.
C18_ExitStatus ==
    /\ MainOver <=> exit_status # <<>>
    /\ MainOver => (exit_status = <<0>> <=> resolved.kind = "returned")
    /\ MainOver => (exit_status[1] # 0 <=> resolved.kind \in {"KeyError", "raised"})

\* Resolution succeeded and every entity failed: the exit status is 0.
C18_Witness ==
    /\ main_pc = "returned"
    /\ exit_status = <<0>>
    /\ Len(cik_map) = 2
    /\ Len(reported) = 2
    /\ written = <<>>

\* The filings the submissions stage of ticker key t gave to _run_ticker.
FilingsFetched(t) ==
    IF "filings" \in StageReplies(t, "submissions") THEN <<"filing">> ELSE <<>>

\* C19: a failure of the company-facts fetch is swallowed: the entity is not
\* reported, its pipeline goes on to the write with an empty facts list, and
\* what is written for it holds its filings and no facts.  The same failure
\* in the submissions fetch leaves _run_ticker (main reports the entity), and
\* a failure to load the ticker map leaves main.
C19_FactsSwallowed ==
    /\ \A n \in 1..Len(stage_log) :
          LET t == stage_log[n].ticker
          IN  /\ (stage_log[n].stage = "facts" /\ stage_log[n].reply \in FailureKinds) =>
                    /\ ~IsReported(t)
                    /\ IF StageReplies(t, "write") = {}
                       THEN /\ InLoop
                            /\ Ticker = t
                            /\ run_pc = "write"
                            /\ result = [filings |-> FilingsFetched(t), facts |-> <<>>]
                       ELSE /\ \A w \in OutputsOf(t) :
                                  /\ written[w].facts = <<>>
                                  /\ written[w].filings = FilingsFetched(t)
                                  /\ written[w].file # "facts.csv"
                            /\ (args.format # "csv" \/ FilingsFetched(t) # <<>>) =>
                                  Cardinality(OutputsOf(t)) = 1
              /\ (stage_log[n].stage = "submissions" /\ stage_log[n].reply \in FailureKinds) =>
                    IsReported(t) /\ OutputsOf(t) = {}
    /\ resolved.kind = "raised" => main_pc = "raised" /\ stage_log = <<>>

\* An entity with filings whose facts fetch failed has been written.
C19_Witness ==
    /\ main_pc = "returned"
    /\ \E t \in DOMAIN ticker_map :
          /\ StageReplies(t, "facts") = {"ConnectionError"}
          /\ StageReplies(t, "submissions") = {"filings"}
          /\ \E w \in OutputsOf(t) :
                written[w].filings = <<"filing">> /\ written[w].facts = <<>>

(***************************************************************************)
(* company_facts.extract_facts_flat.                                       *)
(*                                                                         *)
(* The nested document is a dict of dicts in insertion order: here, at     *)
(* each level, the sequence of the items, each item a name and what is     *)
(* under it.  An entry is a record of optional values (None: the entry has *)
(* no such field); its val tells it apart from every other entry of the    *)
(* document.  label and description of a row are left out.                 *)
(***************************************************************************)
MaxEntries == 2          \* entries under one unit of the facts document

TaxonomyNames == <<"us-gaap", "dei">>

TagNames == <<"Revenues", "SalesRevenueNet">>

UnitNames == <<"USD", "shares">>

\* Entry i under unit u of concept c of taxonomy t, with every field.
DatedEntry(t, c, u, i) ==
    [val |-> <<t, c, u, i>>, end |-> Some("2023-12-31"), fy |-> Some(2023),
     fp |-> Some("FY"), filed |-> Some("2023-01-01")]

Item(name, under) == [name |-> name, under |-> under]

\* The dicts of one level: no item, one item named names[1] with something of
\* S1 under it, or that item and one named names[2] with something of S2.
Level(names, S1, S2) ==
    {<<>>} \cup {<<Item(names[1], a)>> : a \in S1}
           \cup {<<Item(names[1], a), Item(names[2], b)>> : a \in S1, b \in S2}

\* The lists of entries under unit u of concept c of taxonomy t.
EntriesOf(t, c, u) ==
    {[i \in 1..n |-> DatedEntry(t, c, u, i)] : n \in 0..MaxEntries}

\* The units a concept can have.
UnitsOf(t, c) == Level(UnitNames, EntriesOf(t, c, 1), EntriesOf(t, c, 2))

\* The concepts a taxonomy can have.
ConceptsOf(t) == Level(TagNames, UnitsOf(t, 1), UnitsOf(t, 2))

\* The facts sections a document can have.
FactsSections == Level(TaxonomyNames, ConceptsOf(1), ConceptsOf(2))

\* lines 71-85: the row of one entry
ExtractRow(taxonomy, tag, unit, entry) ==
    [taxonomy |-> taxonomy, tag |-> tag, canonical_tag |-> None, unit |-> Some(unit),
     value |-> entry.val, end |-> entry.end, fy |-> entry.fy, fp |-> entry.fp,
     filed |-> entry.filed]

FlattenEntriesLastOnly(taxonomy, tag, unit, entries) ==
    IF entries = <<>> THEN <<>>
    ELSE <<ExtractRow(taxonomy, tag, unit, entries[Len(entries)])>>

\* for entry in entries: rows.append(row)
FlattenEntries(taxonomy, tag, unit, entries) ==
    [i \in 1..Len(entries) |-> ExtractRow(taxonomy, tag, unit, entries[i])]

RECURSIVE FlattenUnits(_, _, _)
\* for unit, entries in units.items()
FlattenUnits(taxonomy, tag, units) ==
    IF units = <<>> THEN <<>>
    ELSE FlattenEntries(taxonomy, tag, Head(units).name, Head(units).under)
         \o FlattenUnits(taxonomy, tag, Tail(units))

RECURSIVE FlattenConcepts(_, _)
\* for tag, tag_data in concepts.items()
FlattenConcepts(taxonomy, concepts) ==
    IF concepts = <<>> THEN <<>>
    ELSE FlattenUnits(taxonomy, Head(concepts).name, Head(concepts).under)
         \o FlattenConcepts(taxonomy, Tail(concepts))

RECURSIVE FlattenTaxonomies(_)
\* for taxonomy, concepts in facts.items()
FlattenTaxonomies(section) ==
    IF section = <<>> THEN <<>>
    ELSE FlattenConcepts(Head(section).name, Head(section).under)
         \o FlattenTaxonomies(Tail(section))

\* facts = facts_data.get("facts", {})
extract_facts_flat(doc) == FlattenTaxonomies(IF doc.has_facts THEN doc.facts ELSE <<>>)

InitExtract ==
    /\ HttpIdle
    /\ NormalizeIdle
    /\ SubmissionsIdle
    /\ ResolveIdle
    /\ MainIdle
    /\ UserAgentIdle
    /\ TailIdle
    /\ facts_data \in {[has_facts |-> FALSE, facts |-> <<>>]}
                      \cup {[has_facts |-> TRUE, facts |-> f] : f \in FactsSections}
    /\ flat = <<>>
    /\ extract_pc = "start"
    /\ facts = <<>>

\* flat = extract_facts_flat(raw_facts)
ExtractFactsFlat ==
    /\ extract_pc = "start"
    /\ flat' = extract_facts_flat(facts_data)
    /\ extract_pc' = "extracted"
    /\ UNCHANGED <<httpVars, normVars, subVars, resVars, mainVars, uaVars, tailVars, facts_data, facts>>

NextExtract == ExtractFactsFlat

SpecExtract == InitExtract /\ [][NextExtract]_vars

(***************************************************************************)
(* Claims about extract_facts_flat.                                        *)
(***************************************************************************)
\* The leaf entries of the document, each by its path <<t, c, u, i>>.
Leaves ==
    IF ~facts_data.has_facts THEN {}
    ELSE {p \in (1..Len(TaxonomyNames)) \X (1..Len(TagNames)) \X (1..Len(UnitNames))
                 \X (1..MaxEntries) :
             /\ p[1] <= Len(facts_data.facts)
             /\ p[2] <= Len(facts_data.facts[p[1]].under)
             /\ p[3] <= Len(facts_data.facts[p[1]].under[p[2]].under)
             /\ p[4] <= Len(facts_data.facts[p[1]].under[p[2]].under[p[3]].under)}

\* Path p comes before path q in the document.
PathBefore(p, q) ==
    \E n \in 1..4 : p[n] < q[n] /\ \A m \in 1..(n - 1) : p[m] = q[m]

\* The place of leaf p in source order.
PlaceOf(p) == 1 + Cardinality({q \in Leaves : PathBefore(q, p)})

\* C21: extract_facts_flat returns one record per leaf entry of the document,
\* in source order, each with the taxonomy, tag and unit of its path; a
\* document without a facts section gives the empty list.
C21_OneRecordPerEntry ==
    extract_pc = "extracted" =>
        /\ Len(flat) = Cardinality(Leaves)
        /\ \A p \in Leaves :
              LET tx == facts_data.facts[p[1]]
                  cn == tx.under[p[2]]
                  un == cn.under[p[3]]
                  row == flat[PlaceOf(p)]
              IN  /\ row.taxonomy = tx.name
                  /\ row.tag = cn.name
                  /\ row.unit = Some(un.name)
                  /\ row.value = un.under[p[4]].val
        /\ ~facts_data.has_facts => flat = <<>>

\* Two taxonomies, the first with two concepts, a unit with two entries.
C21_Witness ==
    /\ extract_pc = "extracted"
    /\ Len(facts_data.facts) = 2
    /\ Len(facts_data.facts[1].under) = 2
    /\ \E p \in Leaves : p[4] = 2 /\ p[3] = 2
    /\ \E p \in Leaves : p[1] = 2
    /\ Len(flat) = Cardinality(Leaves)
    /\ Len(flat) >= 4

(***************************************************************************)
(* Claims about the User-Agent header.                                     *)
(***************************************************************************)
\* C22: every request sent by get carries a non-empty User-Agent header,
\* whatever the user_agent argument (absent, empty, set) and whatever the
\* environment variable of the default (not set, set, set to "").
C22_UserAgentNonEmpty == \A h \in ua_sent : h # ""

(***************************************************************************)
(* normalize on the rows extract_facts_flat builds, as _run_ticker calls   *)
(* it.  A row of extract_facts_flat always has the key "filed"; its value  *)
(* is None when the entry has no such field.                               *)
(***************************************************************************)
\* What the filed field of an entry can be: not there, or a date.
FiledValues == {None, Some("2023-01-01"), Some("2023-06-01")}

\* The entries of one unit: each of fiscal year 2022 or 2023, with or without
\* a filed field.
FlatEntry(i, fy, filed) ==
    [val |-> <<1, 1, 1, i>>, end |-> Some("2023-12-31"), fy |-> Some(fy),
     fp |-> Some("FY"), filed |-> filed]

FlatEntryLists(n) ==
    {[i \in 1..n |-> FlatEntry(i, f[i][1], f[i][2])] :
        f \in [1..n -> {2022, 2023} \X FiledValues]}

\* deduplicate, lines 28-30, for rows whose filed may be None: the comparison
\* row.get("filed", "") > existing.get("filed", "") finds the key, takes the
\* None and raises TypeError.
DedupStepFlat(best, row) ==
    LET key == RowKey(row)
        at == {i \in 1..Len(best) : best[i].key = key}
    IN  IF at = {}
        THEN [raised |-> FALSE, best |-> Append(best, [key |-> key, row |-> row])]
        ELSE LET i == CHOOSE j \in at : TRUE
                 existing == best[i].row
             IN  IF row.filed = None \/ existing.filed = None
                 THEN [raised |-> TRUE, best |-> best]
                 ELSE IF StrLess(existing.filed[1], row.filed[1])
                      THEN [raised |-> FALSE, best |-> [best EXCEPT ![i].row = row]]
                      ELSE [raised |-> FALSE, best |-> best]

RECURSIVE DedupLoopFlat(_, _)
DedupLoopFlat(best, rest) ==
    IF rest = <<>> THEN [raised |-> FALSE, best |-> best]
    ELSE LET step == DedupStepFlat(best, Head(rest))
         IN  IF step.raised THEN step ELSE DedupLoopFlat(step.best, Tail(rest))

\* normalize(flat, priority_only=False): annotate, deduplicate, sort
NormalizeFlatResult(annotated) ==
    LET deduped == DedupLoopFlat(<<>>, annotated)
    IN  IF deduped.raised THEN [raised |-> TRUE, rows |-> <<>>]
        ELSE [raised |-> FALSE,
              rows |-> SortRows([i \in 1..Len(deduped.best) |-> deduped.best[i].row])]

\* The document has one taxonomy with one concept with one unit.
InitFlatNormalize ==
    /\ HttpIdle
    /\ NormalizeIdle
    /\ SubmissionsIdle
    /\ ResolveIdle
    /\ MainIdle
    /\ UserAgentIdle
    /\ TailIdle
    /\ \E n \in 0..MaxEntries : \E es \in FlatEntryLists(n) : \E c \in 1..Len(TagNames) :
          facts_data = [has_facts |-> TRUE,
                        facts |-> <<Item(TaxonomyNames[1],
                                         <<Item(TagNames[c],
                                                <<Item(UnitNames[1], es)>>)>>)>>]
    /\ flat = <<>>
    /\ extract_pc = "start"
    /\ facts = <<>>

\* rows = normalize(flat, priority_only=args.priority_only)
NormalizeFlat ==
    /\ extract_pc = "extracted"
    /\ flat' = Annotate(flat)
    /\ LET r == NormalizeFlatResult(Annotate(flat))
       IN  /\ facts' = r.rows
           /\ extract_pc' = IF r.raised THEN "raised" ELSE "normalized"
    /\ UNCHANGED <<httpVars, normVars, subVars, resVars, mainVars, uaVars, tailVars, facts_data>>

NextFlatNormalize ==
    \/ ExtractFactsFlat
    \/ NormalizeFlat

SpecFlatNormalize == InitFlatNormalize /\ [][NextFlatNormalize]_vars

\* C23: a record without filedDate is compared as the empty string: normalize
\* of the rows of extract_facts_flat completes without error, and a record
\* without filed is not in the result when a record of its group has one,
\* whichever of the two comes first.
C23_AbsentFiledLoses ==
    extract_pc \in {"normalized", "raised"} =>
        /\ extract_pc = "normalized"
        /\ \A i, j \in 1..Len(flat) :
              (/\ KeyOfInput(flat[i]) = KeyOfInput(flat[j])
               /\ flat[i].filed = None
               /\ flat[j].filed # None) =>
                  \A k \in 1..Len(facts) : facts[k].value # flat[i].value

(***************************************************************************)
(* Claims about _parse_filings on arrays of unequal length.                *)
(***************************************************************************)
\* C24: when the arrays of a filings section do not all have one length the
\* transposition fails; it never returns a row list.  So every section that
\* fetch has parsed without an error has arrays of one length, whichever of
\* its arrays is listed first.
C24_RaggedIsFatal ==
    fetch_pc \in {"loop", "returned"} =>
        /\ WellFormed(data.recent)
        /\ \A k \in 1..Len(overflow_docs) : WellFormed(overflow_docs[k])

(***************************************************************************)
(* Concurrent calls of cik_resolver.resolve (threads of the job server, or *)
(* processes) on one cache file.                                           *)
(*                                                                         *)
(* open(path, "w") truncates the file at once and sets its modification    *)
(* time; json.dump then writes the text part by part, each writer at its   *)
(* own offset, and the file is complete when every part is there.  Nothing *)
(* in _load_ticker_map locks the file or writes it under another name.     *)
(* The wall clock does not move while the resolvers run.                   *)
(***************************************************************************)
NumResolvers == 2        \* concurrent callers of resolve
NumChunks == 2           \* parts in which json.dump writes the table

Resolvers == 1..NumResolvers

AllChunks == 1..NumChunks

CompleteFile(table, t) == <<[mtime |-> t, content |-> table, chunks |-> AllChunks]>>

\* The file is missing, or holds the table of the upstream, written 24 hours
\* ago or just now.
InitResolveConcurrent ==
    /\ HttpIdle
    /\ NormalizeIdle
    /\ SubmissionsIdle
    /\ MainIdle
    /\ ExtractIdle
    /\ UserAgentIdle
    /\ JobIdle
    /\ wall_clock = TICKER_CACHE_MAX_AGE_HOURS
    /\ cache = <<>>
    /\ cache_before = <<>>
    /\ sec_table \in Tables \ {<<>>}
    /\ tickers \in TickerLists(1)
    /\ resolve_pc = "idle"
    /\ ticker_map = <<>>
    /\ resolved = NoOutcome
    /\ load_log = <<>>
    /\ resolve_calls = 0
    /\ cache_file \in {<<>>, CompleteFile(sec_table, 0), CompleteFile(sec_table, wall_clock)}
    /\ res_pc = [r \in Resolvers |-> "call"]
    /\ res_raw = [r \in Resolvers |-> <<>>]
    /\ res_chunk = [r \in Resolvers |-> 0]
    /\ res_outcome = [r \in Resolvers |-> NoOutcome]

RaceUnchanged == UNCHANGED <<httpVars, normVars, subVars, resVars, mainVars, extVars, uaVars, jobVars>>

\* _load_ticker_map, line 30: if _cache_is_fresh()
CheckFresh(r) ==
    /\ res_pc[r] = "call"
    /\ res_pc' = [res_pc EXCEPT ![r] =
                     IF _cache_is_fresh(cache_file, wall_clock) THEN "read" ELSE "fetch"]
    /\ RaceUnchanged
    /\ UNCHANGED <<cache_file, res_raw, res_chunk, res_outcome>>

\* lines 31-32: raw = json.load(f); a file that is not complete does not
\* decode and json.load raises JSONDecodeError.
ReadCache(r) ==
    /\ res_pc[r] = "read"
    /\ IF cache_file[1].chunks = AllChunks
       THEN /\ res_raw' = [res_raw EXCEPT ![r] = cache_file[1].content]
            /\ res_pc' = [res_pc EXCEPT ![r] = "loop"]
            /\ res_outcome' = res_outcome
       ELSE /\ res_outcome' = [res_outcome EXCEPT ![r] =
                                  [kind |-> "JSONDecodeError", results |-> <<>>, key |-> <<>>]]
            /\ res_pc' = [res_pc EXCEPT ![r] = "done"]
            /\ res_raw' = res_raw
    /\ RaceUnchanged
    /\ UNCHANGED <<cache_file, res_chunk>>

\* lines 34-35: resp = http_client.get(TICKER_MAP_URL); raw = resp.json()
FetchTable(r, ok) ==
    /\ res_pc[r] = "fetch"
    /\ IF ok
       THEN /\ res_raw' = [res_raw EXCEPT ![r] = sec_table]
            /\ res_pc' = [res_pc EXCEPT ![r] = "open"]
            /\ res_outcome' = res_outcome
       ELSE /\ res_outcome' = [res_outcome EXCEPT ![r] =
                                  [kind |-> "HTTPError", results |-> <<>>, key |-> <<>>]]
            /\ res_pc' = [res_pc EXCEPT ![r] = "done"]
            /\ res_raw' = res_raw
    /\ RaceUnchanged
    /\ UNCHANGED <<cache_file, res_chunk>>

\* line 37: open(_cache_path(), "w")
OpenCache(r) ==
    /\ res_pc[r] = "open"
    /\ cache_file' = <<[mtime |-> wall_clock, content |-> res_raw[r], chunks |-> {}]>>
    /\ res_chunk' = [res_chunk EXCEPT ![r] = 0]
    /\ res_pc' = [res_pc EXCEPT ![r] = "dump"]
    /\ RaceUnchanged
    /\ UNCHANGED <<res_raw, res_outcome>>

\* line 38: json.dump(raw, f), one part
DumpChunk(r) ==
    /\ res_pc[r] = "dump"
    /\ res_chunk[r] < NumChunks
    /\ cache_file' = <<[cache_file[1] EXCEPT !.chunks = @ \cup {res_chunk[r] + 1},
                                             !.mtime = wall_clock]>>
    /\ res_chunk' = [res_chunk EXCEPT ![r] = @ + 1]
    /\ RaceUnchanged
    /\ UNCHANGED <<res_pc, res_raw, res_outcome>>

\* the end of the with block: the file is closed
CloseCache(r) ==
    /\ res_pc[r] = "dump"
    /\ res_chunk[r] = NumChunks
    /\ res_pc' = [res_pc EXCEPT ![r] = "loop"]
    /\ RaceUnchanged
    /\ UNCHANGED <<cache_file, res_raw, res_chunk, res_outcome>>

\* lines 41-44 and the loop of resolve
ResolveOne(r) ==
    /\ res_pc[r] = "loop"
    /\ res_outcome' = [res_outcome EXCEPT ![r] =
                          ResolveLoop(BuildTickerMap(res_raw[r]), tickers, 1, <<>>)]
    /\ res_pc' = [res_pc EXCEPT ![r] = "done"]
    /\ RaceUnchanged
    /\ UNCHANGED <<cache_file, res_raw, res_chunk>>

NextResolveConcurrent ==
    \/ \E r \in Resolvers : CheckFresh(r)
    \/ \E r \in Resolvers : ReadCache(r)
    \/ \E r \in Resolvers : \E ok \in BOOLEAN : FetchTable(r, ok)
    \/ \E r \in Resolvers : OpenCache(r)
    \/ \E r \in Resolvers : DumpChunk(r)
    \/ \E r \in Resolvers : CloseCache(r)
    \/ \E r \in Resolvers : ResolveOne(r)

SpecResolveConcurrent == InitResolveConcurrent /\ [][NextResolveConcurrent]_vars

\* C25: resolvers that race on the cache file do no harm: every call of
\* resolve whose request for the table did not fail ends as a call on the
\* table of the upstream ends, with the same mapping; none fails on the file
\* or reads a part of the map.
C25_RaceHarmless ==
    \A r \in Resolvers :
        (res_pc[r] = "done" /\ res_outcome[r].kind # "HTTPError") =>
            res_outcome[r] = ResolveLoop(BuildTickerMap(sec_table), tickers, 1, <<>>)

(***************************************************************************)
(* The job server: munger_api (job store, do_POST, _run_job) and           *)
(* munger_worker.run_analysis.                                             *)
(*                                                                         *)
(* A job id, uuid.uuid4().hex[:12], is taken as fresh: the id of a job is  *)
(* its index in the store.  Every access to _jobs is made under _jobs_lock *)
(* and is one step.  The fields created and updated, which are wall-clock  *)
(* times, are left out.  The pipeline stages and the analysis script are   *)
(* abstracted to the ways in which they end.                               *)
(***************************************************************************)
MaxJobs == 2             \* jobs accepted by the server

\* The request bodies of POST /api/munger/analyze: bytes that are not JSON,
\* a JSON value that is not an object, and objects with or without a ticker.
Payloads ==
    {[json |-> "invalid", ticker |-> <<>>], [json |-> "array", ticker |-> <<>>]}
        \cup {[json |-> "object", ticker |-> t] : t \in {<<>>, <<" ">>, <<" ", "a", "A", " ">>, <<"B">>}}

\* How _fetch_ticker_data ends: with the data, or with an exception of
\* resolve (request, cache file, unknown ticker), of submissions.fetch
\* (request, ragged arrays) or of normalize (rows without a filing date).
FetchResults == {"ok", "HTTPError", "ConnectionError", "JSONDecodeError", "KeyError", "IndexError", "TypeError"}

\* How subprocess.run and the reading of its output end.
ScriptResults == {"report_file", "stdout", "no_output", "nonzero_exit", "TimeoutExpired"}

\* The texts of a report: the report file may be empty, stripped standard
\* output is used only when it is not.
ReportTexts == {"", "# Report"}

\* The exceptions raised inside _run_job's try block; all derive from Exception.
ExceptionKinds == (FetchResults \ {"ok"}) \cup {"OSError", "RuntimeError", "TimeoutExpired"}

IsExceptionOnlyRuntimeError(kind) == kind = "RuntimeError"

\* _run_job, line 78: except Exception
IsException(kind) == kind \in ExceptionKinds

\* _new_job, lines 36-45
NewJob(job_id, ticker) ==
    [id |-> job_id, ticker |-> upper(ticker), status |-> "queued", stage |-> "queued",
     report |-> <<>>, error |-> <<>>]

\* dict.update(kwargs): the fields of kwargs replace those of the job.
Updated(job, kwargs) ==
    [f \in DOMAIN job |-> IF f \in DOMAIN kwargs THEN kwargs[f] ELSE job[f]]

\* _update_job, lines 50-52
_update_job(job_id, kwargs) ==
    IF job_id \in DOMAIN _jobs
    THEN [_jobs EXCEPT ![job_id] = Updated(@, kwargs)]
    ELSE _jobs

ProgressFieldsRequeue(stage) == [stage |-> stage, status |-> "queued"]

\* on_progress, line 72
ProgressFields(stage) == [stage |-> stage, status |-> "running"]

NoJobResult == [kind |-> "none", value |-> ""]

InitJobs ==
    /\ HttpIdle
    /\ NormalizeIdle
    /\ SubmissionsIdle
    /\ ResolveIdle
    /\ MainIdle
    /\ ExtractIdle
    /\ UserAgentIdle
    /\ RaceIdle
    /\ _jobs = <<>>
    /\ job_pc = <<>>
    /\ job_result = <<>>
    /\ last_reply = "none"

JobsUnchanged == UNCHANGED <<httpVars, normVars, subVars, resVars, mainVars, extVars, uaVars, raceVars>>

\* do_POST, lines 114-139: a body that is not JSON and a body without a
\* ticker are answered 400; payload.get on a value that is not an object
\* raises and no job is made; else the job is stored and its thread started.
Post(payload) ==
    /\ Len(_jobs) < MaxJobs
    /\ IF payload.json = "invalid"
       THEN /\ last_reply' = "400 Invalid JSON"
            /\ UNCHANGED <<_jobs, job_pc, job_result>>
       ELSE IF payload.json = "array"
       THEN /\ last_reply' = "AttributeError"
            /\ UNCHANGED <<_jobs, job_pc, job_result>>
       ELSE IF upper(strip(payload.ticker)) = <<>>
       THEN /\ last_reply' = "400 Missing ticker"
            /\ UNCHANGED <<_jobs, job_pc, job_result>>
       ELSE /\ _jobs' = Append(_jobs, NewJob(Len(_jobs) + 1, upper(strip(payload.ticker))))
            /\ job_pc' = Append(job_pc, "thread")
            /\ job_result' = Append(job_result, NoJobResult)
            /\ last_reply' = "202"
    /\ JobsUnchanged

\* A step of the worker that calls _update_job with kwargs and goes to next.
UpdateStep(j, from, kwargs, next) ==
    /\ job_pc[j] = from
    /\ _jobs' = _update_job(j, kwargs)
    /\ job_pc' = [job_pc EXCEPT ![j] = next]
    /\ UNCHANGED <<job_result, last_reply>>
    /\ JobsUnchanged

\* A step of the worker that ends with a value in hand or with an exception.
WorkStep(j, from, raised, value, next) ==
    /\ job_pc[j] = from
    /\ IF raised = "ok"
       THEN /\ job_pc' = [job_pc EXCEPT ![j] = next]
            /\ job_result' = [job_result EXCEPT ![j] = value]
       ELSE /\ job_pc' = [job_pc EXCEPT ![j] = "except"]
            /\ job_result' = [job_result EXCEPT ![j] = [kind |-> raised, value |-> raised]]
    /\ UNCHANGED <<_jobs, last_reply>>
    /\ JobsUnchanged

\* _run_job, line 75
JobStart(j) ==
    UpdateStep(j, "thread", [status |-> "running", stage |-> "starting"], "resolving_ticker")

\* run_analysis, line 74
ProgressResolving(j) ==
    UpdateStep(j, "resolving_ticker", ProgressFields("resolving_ticker"), "fetching_data")

\* run_analysis, line 77
ProgressFetching(j) ==
    UpdateStep(j, "fetching_data", ProgressFields("fetching_data"), "fetch")

\* run_analysis, line 78
FetchTickerData(j, r) == WorkStep(j, "fetch", r, NoJobResult, "data_ready")

\* run_analysis, lines 80-82; the counts in the stage text are left out
ProgressDataReady(j) ==
    UpdateStep(j, "data_ready", ProgressFields("data_ready"), "prepare")

\* run_analysis, lines 85-87: the temporary directory and the data file
PrepareSummary(j, ok) ==
    WorkStep(j, "prepare", IF ok THEN "ok" ELSE "OSError", NoJobResult, "analyzing")

\* run_analysis, line 90
ProgressAnalyzing(j) ==
    UpdateStep(j, "analyzing", ProgressFields("analyzing"), "subprocess")

\* run_analysis, lines 91-112
RunScript(j, r, text) ==
    /\ r = "stdout" => text # ""
    /\ WorkStep(j, "subprocess",
                CASE r \in {"report_file", "stdout"} -> "ok"
                  [] r \in {"no_output", "nonzero_exit"} -> "RuntimeError"
                  [] OTHER -> "TimeoutExpired",
                [kind |-> "report", value |-> text], "return")

\* _run_job, line 77
JobComplete(j) ==
    UpdateStep(j, "return",
               [status |-> "complete", stage |-> "done", report |-> <<job_result[j].value>>],
               "ended")

\* _run_job, lines 78-81; an exception that the clause does not catch ends
\* the thread.
JobExcept(j) ==
    /\ job_pc[j] = "except"
    /\ IF IsException(job_result[j].kind)
       THEN /\ _jobs' = _update_job(j, [status |-> "error", stage |-> "failed",
                                          error |-> <<job_result[j].value>>])
            /\ job_pc' = [job_pc EXCEPT ![j] = "ended"]
       ELSE /\ _jobs' = _jobs
            /\ job_pc' = [job_pc EXCEPT ![j] = "uncaught"]
    /\ UNCHANGED <<job_result, last_reply>>
    /\ JobsUnchanged

\* The steps of the worker thread of job j.
Worker(j) ==
    \/ JobStart(j)
    \/ ProgressResolving(j)
    \/ ProgressFetching(j)
    \/ \E r \in FetchResults : FetchTickerData(j, r)
    \/ ProgressDataReady(j)
    \/ \E ok \in BOOLEAN : PrepareSummary(j, ok)
    \/ ProgressAnalyzing(j)
    \/ \E r \in ScriptResults : \E text \in ReportTexts : RunScript(j, r, text)
    \/ JobComplete(j)
    \/ JobExcept(j)

NextJobs ==
    \/ \E payload \in Payloads : Post(payload)
    \/ \E j \in DOMAIN _jobs : JobStart(j)
    \/ \E j \in DOMAIN _jobs : ProgressResolving(j)
    \/ \E j \in DOMAIN _jobs : ProgressFetching(j)
    \/ \E j \in DOMAIN _jobs : \E r \in FetchResults : FetchTickerData(j, r)
    \/ \E j \in DOMAIN _jobs : ProgressDataReady(j)
    \/ \E j \in DOMAIN _jobs : \E ok \in BOOLEAN : PrepareSummary(j, ok)
    \/ \E j \in DOMAIN _jobs : ProgressAnalyzing(j)
    \/ \E j \in DOMAIN _jobs : \E r \in ScriptResults : \E text \in ReportTexts : RunScript(j, r, text)
    \/ \E j \in DOMAIN _jobs : JobComplete(j)
    \/ \E j \in DOMAIN _jobs : JobExcept(j)

SpecJobs == InitJobs /\ [][NextJobs]_vars

\* The worker thread of every job is scheduled; the requests and the
\* analysis script, which have timeouts, return.
SpecJobsFair == SpecJobs /\ \A j \in 1..MaxJobs : WF_vars(j \in DOMAIN _jobs /\ Worker(j))

Terminal == {"complete", "error"}

\* The moves of a job's status in one step.
StatusMoves ==
    {<<"queued", "queued">>, <<"queued", "running">>, <<"running", "running">>,
     <<"running", "complete">>, <<"running", "error">>,
     <<"complete", "complete">>, <<"error", "error">>}

\* C27: a job's status only moves forward along queued -> running ->
\* (complete | error); once it is complete or error, its status, report and
\* error never change again, whatever the progress callbacks and the other
\* jobs do; and a job has a report only when its status is complete.
C27_StatusForward ==
    /\ [][\A j \in DOMAIN _jobs :
             /\ <<_jobs[j].status, _jobs'[j].status>> \in StatusMoves
             /\ _jobs[j].status \in Terminal =>
                   /\ _jobs'[j].status = _jobs[j].status
                   /\ _jobs'[j].report = _jobs[j].report
                   /\ _jobs'[j].error = _jobs[j].error]_vars
    /\ [](\A j \in DOMAIN _jobs : _jobs[j].report # <<>> => _jobs[j].status = "complete")

\* One job is complete with its report while the other, accepted later and
\* run concurrently, has failed.
C27_Witness ==
    /\ Len(_jobs) = MaxJobs
    /\ _jobs[1].status = "complete"
    /\ _jobs[1].report = <<"# Report">>
    /\ _jobs[2].status = "error"
    /\ _jobs[2].error # <<>>
    /\ _jobs[2].report = <<>>

\* C28: every accepted job eventually reaches status complete or error: no
\* failure of resolution, fetching or the analysis script leaves it queued
\* or running for ever.
C28_JobsFinish ==
    \A j \in 1..MaxJobs :
        (j \in DOMAIN _jobs) ~> (j \in DOMAIN _jobs /\ _jobs[j].status \in Terminal)

\* A job whose analysis script timed out has ended in error, another whose
\* ticker did not resolve too.
C28_Witness ==
    \E j, k \in DOMAIN _jobs :
        /\ _jobs[j].status = "error"
        /\ job_result[j].kind = "TimeoutExpired"
        /\ _jobs[k].status = "error"
        /\ job_result[k].kind = "KeyError"

====
